---- MODULE Spec2Model ----
(***************************************************************************)
(* A model of the solar panel finder (HanoAdam/solar_panel_nl).            *)
(*                                                                         *)
(*   - the unit calculator (src/src/utils/calculations.js)                 *)
(*   - the dataset loader  (src/src/utils/spreadsheetReader.js)            *)
(*   - the address matcher and the search state machine                    *)
(*     (App.handleSearch, src/src/components/SolarPanelInfo.jsx:457-663)   *)
(*   - the map view (PdokMap, src/src/components/PdokMap.jsx:21-160)       *)
(*                                                                         *)
(* JavaScript numbers are modelled as exact rationals (IEEE-754 rounding,  *)
(* overflow and subnormals are not modelled).  JavaScript strings are      *)
(* sequences of one-character strings.                                     *)
(*                                                                         *)
(* SolarPanelInfo (src/src/components/PdokMap.jsx:169-284, 307-329) is     *)
(* rendered by App with data = solarPanelData and without onDataChange.    *)
(*                                                                         *)
(* Specifications:                                                         *)
(*   SpecCalc  - the pure calculator functions applied to bounded inputs   *)
(*   SpecNorm  - address normalisation by the matcher and by both loaders  *)
(*   SpecMatch - the three matching tiers applied to bounded tables        *)
(*   Spec      - the application: dataset load, searches, geocode          *)
(*               responses and the map effect                              *)
(***************************************************************************)
EXTENDS Integers, Sequences, FiniteSets, TLC

VARIABLES
    calc,             \* SpecCalc: the call being evaluated and its results
    norm,             \* SpecNorm: the string being normalised and the results
    match,            \* SpecMatch: table, query and the matcher's outcome
    load,             \* SpecLoad: the sheet's rows and the table the loader built
    sim,              \* SpecSim: two strings and their similarity
    address,          \* App state: useState('')
    solarPanelData,   \* App state: useState(null)
    coordinates,      \* App state: useState({lat: DEFAULT_LAT, lon: DEFAULT_LON})
    loading,          \* App state: useState(false)
    error,            \* App state: useState(null)
    spreadsheetData,  \* App state: useState({})
    loadState,        \* the mount effect's loadSpreadsheet(): pending / loaded / failed
    pending,          \* handleSearch calls suspended at await geocodeAddress(...)
    mapView,          \* PdokMap: the last setView(center, zoom) handed to the map
    lastSearch,       \* the outcome of the handleSearch call that ran last
    info              \* SolarPanelInfo: its state, its refs and what it has scheduled

vars == <<calc, norm, match, load, sim, address, solarPanelData, coordinates, loading,
          error, spreadsheetData, loadState, pending, mapView, lastSearch, info>>

(***************************************************************************)
(* Value(S) is the element of the singleton S.  The idiom                  *)
(*     Value({F(x) : x \in {e}})                                           *)
(* is F(e) with e evaluated once and bound to x; it is used wherever an    *)
(* operator reads an argument several times.                               *)
(***************************************************************************)
Value(S) == CHOOSE r \in S : TRUE

(***************************************************************************)
(* JavaScript values used as numbers.                                      *)
(***************************************************************************)
Abs(i) == IF i < 0 THEN -i ELSE i

RECURSIVE Gcd(_, _)
Gcd(a, b) == IF b = 0 THEN a ELSE Gcd(b, a % b)

\* the rational n/d in lowest terms, d > 0
Num(n, d) ==
    Value({[t |-> "num",
            n |-> (IF y < 0 THEN -x ELSE x) \div g,
            d |-> Abs(y) \div g] : x \in {n}, y \in {d}, g \in {Gcd(Abs(n), Abs(d))}})

Int2Num(i) == [t |-> "num", n |-> i, d |-> 1]
Undefined == [t |-> "undefined", n |-> 0, d |-> 1]
Null == [t |-> "null", n |-> 0, d |-> 1]
NaN == [t |-> "NaN", n |-> 0, d |-> 1]
Zero == Int2Num(0)
One == Int2Num(1)

\* a spreadsheet cell holding text that is no number (a non-empty string)
Text == [t |-> "text", n |-> 0, d |-> 1]

\* a * b, a / b and a + b on numbers
Mul(a, b) == Value({Num(x.n * y.n, x.d * y.d) : x \in {a}, y \in {b}})
Div(a, b) == Value({Num(x.n * y.d, x.d * y.n) : x \in {a}, y \in {b}})
Add(a, b) == Value({Num(x.n * y.d + y.n * x.d, x.d * y.d) : x \in {a}, y \in {b}})

\* !v : undefined, null, NaN and 0 are falsy; a non-empty string is truthy
Falsy(v) ==
    \E x \in {v} : x.t \in {"undefined", "null", "NaN"} \/ (x.t = "num" /\ x.n = 0)

\* v <= 0 : null converts to 0; undefined, NaN and text compare false
LeZero(v) ==
    \E x \in {v} : (x.t = "num" /\ x.n <= 0) \/ x.t = "null"

\* a > b on numbers
Gt(a, b) == \E x \in {a}, y \in {b} : x.n * y.d > y.n * x.d

(***************************************************************************)
(* Unit calculator: src/src/utils/calculations.js                          *)
(***************************************************************************)
calculateKwp_NoOutputGuard(panels, avgPanelOutput) ==
    IF Falsy(panels) \/ LeZero(panels) \/ Falsy(avgPanelOutput)
    THEN Zero
    ELSE Div(Mul(panels, avgPanelOutput), Int2Num(1000))

calculateKwp(panels, avgPanelOutput) ==
    IF Falsy(panels) \/ LeZero(panels) \/ Falsy(avgPanelOutput) \/ LeZero(avgPanelOutput)
    THEN Zero
    ELSE Div(Mul(panels, avgPanelOutput), Int2Num(1000))

calculateAnnualOutput_NoAvailabilityGuard(kwp, kwhPerKwpPerYear, availabilityFactor) ==
    IF Falsy(kwp) \/ LeZero(kwp) THEN Zero
    ELSE IF Falsy(kwhPerKwpPerYear) \/ LeZero(kwhPerKwpPerYear) THEN Zero
    ELSE IF availabilityFactor.t # "num" THEN Zero
    ELSE Mul(Mul(kwp, kwhPerKwpPerYear), Div(availabilityFactor, Int2Num(100)))

calculateAnnualOutput(kwp, kwhPerKwpPerYear, availabilityFactor) ==
    IF Falsy(kwp) \/ LeZero(kwp) THEN Zero
    ELSE IF Falsy(kwhPerKwpPerYear) \/ LeZero(kwhPerKwpPerYear) THEN Zero
    ELSE IF Falsy(availabilityFactor) \/ LeZero(availabilityFactor) THEN Zero
    ELSE Mul(Mul(kwp, kwhPerKwpPerYear), Div(availabilityFactor, Int2Num(100)))

\* a destructured parameter's default applies when the property is undefined
DefaultParam(v, dflt) == IF v.t = "undefined" THEN dflt ELSE v

DefaultKwhPerKwpPerYear == 875
DefaultAvailabilityFactor == 99
DefaultAvgPanelOutput == 435

calculateSolarPanelOutput_DefaultOnFalsy(params) ==
    Value({[kwp |-> kwp,
            annualOutput |->
                calculateAnnualOutput(kwp,
                    IF Falsy(params.kwhPerKwpPerYear)
                    THEN Int2Num(DefaultKwhPerKwpPerYear) ELSE params.kwhPerKwpPerYear,
                    IF Falsy(params.availabilityFactor)
                    THEN Int2Num(DefaultAvailabilityFactor) ELSE params.availabilityFactor)] :
           kwp \in {calculateKwp(params.panels, params.avgPanelOutput)}})

calculateSolarPanelOutput(params) ==
    Value({[kwp |-> kwp,
            annualOutput |->
                calculateAnnualOutput(kwp,
                    DefaultParam(params.kwhPerKwpPerYear, Int2Num(DefaultKwhPerKwpPerYear)),
                    DefaultParam(params.availabilityFactor,
                                 Int2Num(DefaultAvailabilityFactor)))] :
           kwp \in {calculateKwp(params.panels, params.avgPanelOutput)}})

(***************************************************************************)
(* JavaScript strings: sequences of one-character strings.                 *)
(***************************************************************************)
LowerLetters == <<"a","b","c","d","e","f","g","h","i","j","k","l","m",
                  "n","o","p","q","r","s","t","u","v","w","x","y","z">>
UpperLetters == <<"A","B","C","D","E","F","G","H","I","J","K","L","M",
                  "N","O","P","Q","R","S","T","U","V","W","X","Y","Z">>
Digits == <<"0","1","2","3","4","5","6","7","8","9">>

Range(f) == {f[i] : i \in DOMAIN f}

LowerLetterSet == Range(LowerLetters)
UpperLetterSet == Range(UpperLetters)
DigitSet == Range(Digits)

IsLowerLetter(c) == c \in LowerLetterSet            \* [a-z]
IsDigit(c) == c \in DigitSet                        \* \d
IsWhitespace(c) == c \in {" ", "\t", "\n"}          \* \s
IsQuote(c) == c \in {"\"", "'"}                     \* ["']
IsPunctuation(c) == c \in {".", ",", ";", ":"}      \* [.,;:]

Min(S) == CHOOSE x \in S : \A y \in S : x <= y
Max(S) == CHOOSE x \in S : \A y \in S : x >= y

\* String.prototype.toLowerCase, one character
toLowerCaseChar(c) ==
    IF c \in UpperLetterSet
    THEN LowerLetters[CHOOSE i \in DOMAIN UpperLetters : UpperLetters[i] = c]
    ELSE c

toLowerCase(str) ==
    Value({[i \in 1..Len(s) |-> toLowerCaseChar(s[i])] : s \in {str}})

\* String.prototype.includes
Includes(str, sub) ==
    \E s \in {str}, t \in {sub} :
        \E i \in 0..(Len(s) - Len(t)) : SubSeq(s, i + 1, i + Len(t)) = t

\* String.prototype.trim: what lies between the first and the last character that
\* is no whitespace
Trim(str) ==
    Value({IF keep = {} THEN <<>> ELSE SubSeq(s, Min(keep), Max(keep)) :
           s \in {str}, keep \in {{i \in DOMAIN str : ~IsWhitespace(str[i])}}})

\* .replace(/^["']|["']$/g, '') : at most one quote at the start and one at the end
StripQuotes(str) ==
    Value({IF a # <<>> /\ IsQuote(a[Len(a)]) THEN SubSeq(a, 1, Len(a) - 1) ELSE a :
           a \in {IF str # <<>> /\ IsQuote(Head(str)) THEN Tail(str) ELSE str}})

\* .replace(/[.,;:]/g, ' ')
ReplacePunctuation(str) ==
    Value({[i \in 1..Len(s) |-> IF IsPunctuation(s[i]) THEN " " ELSE s[i]] : s \in {str}})

\* .replace(/\s+/g, ' ') from position i on: a whitespace character becomes a space
\* when it starts a run and nothing when it continues one
RECURSIVE CollapseFrom(_, _)
CollapseFrom(s, i) ==
    IF i > Len(s) THEN <<>>
    ELSE IF ~IsWhitespace(s[i]) THEN <<s[i]>> \o CollapseFrom(s, i + 1)
    ELSE IF i > 1 /\ IsWhitespace(s[i - 1]) THEN CollapseFrom(s, i + 1)
    ELSE <<" ">> \o CollapseFrom(s, i + 1)

CollapseWhitespace(str) == Value({CollapseFrom(s, 1) : s \in {str}})

(***************************************************************************)
(* normalizeAddress: the matcher's copy (App.handleSearch) and the         *)
(* loader's copy (loadSpreadsheetFromUrl) are the same text.               *)
(***************************************************************************)
\* a normalisation that trims before it replaces punctuation
normalizeAddress_TrimsFirst(addr) ==
    CollapseWhitespace(ReplacePunctuation(toLowerCase(Trim(StripQuotes(addr)))))

normalizeAddress(addr) ==
    Trim(CollapseWhitespace(ReplacePunctuation(toLowerCase(StripQuotes(addr)))))

loaderNormalizeAddress(addr) ==
    Trim(CollapseWhitespace(ReplacePunctuation(toLowerCase(StripQuotes(addr)))))

\* readSpreadsheet: (row.Address || row.address || '').toLowerCase().trim()
readSpreadsheetKey(addr) == Trim(toLowerCase(addr))

(***************************************************************************)
(* extractStreetAndNumber (App.handleSearch)                               *)
(***************************************************************************)
IsStreetChar(c) == IsLowerLetter(c) \/ IsWhitespace(c)      \* [a-z\s]

\* the end of /\d+[a-z]*/ matched greedily from position k (s[k] is a digit)
RECURSIVE RunEnd(_, _, _)
RunEnd(s, k, digits) ==
    IF k < Len(s) /\ digits /\ IsDigit(s[k + 1]) THEN RunEnd(s, k + 1, TRUE)
    ELSE IF k < Len(s) /\ IsLowerLetter(s[k + 1]) THEN RunEnd(s, k + 1, FALSE)
    ELSE k

\* /([a-z\s]+?)\s+(\d+[a-z]*)/ matches with the number token starting at k when
\* s[k] is a digit, s[k-1] is whitespace and s[k-2] is in [a-z\s].  Group 1 holds no
\* digit, so a start position reaches one k only, and the leftmost match is the one
\* of the smallest such k.
NumberStarts(s) ==
    {k \in 3..Len(s) : IsDigit(s[k]) /\ IsWhitespace(s[k - 1]) /\ IsStreetChar(s[k - 2])}

\* the leftmost position from which s[..p] is in [a-z\s]: where the match starts
RECURSIVE StreetRunStart(_, _)
StreetRunStart(s, p) ==
    IF p > 1 /\ IsStreetChar(s[p - 1]) THEN StreetRunStart(s, p - 1) ELSE p

\* the leftmost position from which s[..p] is whitespace
RECURSIVE WhitespaceRunStart(_, _)
WhitespaceRunStart(s, p) ==
    IF p > 1 /\ IsWhitespace(s[p - 1]) THEN WhitespaceRunStart(s, p - 1) ELSE p

\* the first occurrence of sub in s removed: .replace(sub, '')
RemoveFirst(str, sub) ==
    Value({IF at = {} THEN s
           ELSE SubSeq(s, 1, Min(at)) \o SubSeq(s, Min(at) + Len(t) + 1, Len(s)) :
           s \in {str}, t \in {sub},
           at \in {{x \in 0..(Len(str) - Len(sub)) :
                      SubSeq(str, x + 1, x + Len(sub)) = sub}}})

\* normalized.match(/([a-z\s]+?)\s+(\d+[a-z]*)/): group 1 is lazy, it ends where the
\* whitespace before the number begins but holds at least the character the match
\* starts with; k is where the number starts, i where the match starts
StreetNumberMatch(s, k) ==
    Value({[street |-> CollapseWhitespace(Trim(SubSeq(s, i, (IF w > i THEN w ELSE i + 1) - 1))),
            number |-> SubSeq(s, k, RunEnd(s, k, TRUE))] :
           i \in {StreetRunStart(s, k - 1)}, w \in {WhitespaceRunStart(s, k - 1)}})

\* normalized.match(/(\d+[a-z]*)/): the first numeric token anywhere, starting at k
NumberAnywhere(s, k) ==
    Value({[street |-> Trim(RemoveFirst(s, number)), number |-> number] :
           number \in {SubSeq(s, k, RunEnd(s, k, TRUE))}})

\* an extraction without the search for a number anywhere
extractStreetAndNumber_Of_NoFallback(normalized) ==
    IF NumberStarts(normalized) # {}
    THEN Value({StreetNumberMatch(normalized, k) : k \in {Min(NumberStarts(normalized))}})
    ELSE [street |-> normalized, number |-> <<>>]

extractStreetAndNumber_Of(normalized) ==
    IF NumberStarts(normalized) # {}
    THEN Value({StreetNumberMatch(normalized, k) : k \in {Min(NumberStarts(normalized))}})
    ELSE IF \E x \in 1..Len(normalized) : IsDigit(normalized[x])
    THEN Value({NumberAnywhere(normalized, k) :
                k \in {Min({x \in 1..Len(normalized) : IsDigit(normalized[x])})}})
    ELSE [street |-> normalized, number |-> <<>>]

extractStreetAndNumber(addr) ==
    Value({extractStreetAndNumber_Of(normalized) : normalized \in {normalizeAddress(addr)}})

(***************************************************************************)
(* calculateSimilarity (App.handleSearch); the result is a rational        *)
(***************************************************************************)
\* a blend that counts only the characters equal at the same position
blendedSimilarity_PositionalOnly(longer, shorter) ==
    Add(Mul(Num(Cardinality({i \in 1..Len(shorter) : shorter[i] = longer[i]}),
                Len(longer)),
            Num(7, 10)),
        Mul(Num(Cardinality({i \in 0..(Len(shorter) - 3) :
                    Includes(longer, SubSeq(shorter, i + 1, i + 3))}),
                IF Len(shorter) - 2 > 1 THEN Len(shorter) - 2 ELSE 1),
            Num(3, 10)))

\* the blend for two strings neither of which contains the other
blendedSimilarity(longer, shorter) ==
    Add(Mul(Num(Cardinality({i \in 1..Len(shorter) :
                    shorter[i] = longer[i] \/ shorter[i] \in Range(longer)}),
                Len(longer)),
            Num(7, 10)),
        Mul(Num(Cardinality({i \in 0..(Len(shorter) - 3) :
                    Includes(longer, SubSeq(shorter, i + 1, i + 3))}),
                IF Len(shorter) - 2 > 1 THEN Len(shorter) - 2 ELSE 1),
            Num(3, 10)))

calculateSimilarity(str1, str2) ==
    Value({IF a = b THEN One
           ELSE IF Len(a) = 0 \/ Len(b) = 0 THEN Zero
           ELSE IF Includes(a, b) \/ Includes(b, a)
           THEN Num(IF Len(a) < Len(b) THEN Len(a) ELSE Len(b),
                    IF Len(a) > Len(b) THEN Len(a) ELSE Len(b))
           ELSE blendedSimilarity(IF Len(a) > Len(b) THEN a ELSE b,
                                  IF Len(a) > Len(b) THEN b ELSE a) :
           a \in {str1}, b \in {str2}})

(***************************************************************************)
(* The dataset table: a JavaScript object, modelled as the sequence of its *)
(* own properties [key, value] in property order (Object.entries).         *)
(* A value is a record of the loader, or a member of Object.prototype      *)
(* reached through the prototype chain, or undefined/null (NoData).        *)
(* An undefined originalAddress is the empty string: both are falsy in     *)
(* every place the code reads it.                                          *)
(***************************************************************************)
NoData ==
    [kind |-> "none", panels |-> Undefined, confidence |-> Undefined,
     annualOutput |-> Undefined, kwp |-> Undefined, kwhPerKwpPerYear |-> Undefined,
     availabilityFactor |-> Undefined, avgPanelOutput |-> Undefined,
     originalAddress |-> <<>>]

\* what spreadsheetData[name] yields for an inherited property of a plain object
PrototypeMember == [NoData EXCEPT !.kind = "prototype"]

\* the names Object.prototype defines that a lower-cased query can spell
PrototypeKeys ==
    {<<"c","o","n","s","t","r","u","c","t","o","r">>,
     <<"_","_","p","r","o","t","o","_","_">>}

Keys(table) == {table[i].key : i \in DOMAIN table}

HasOwn(table, k) == \E i \in DOMAIN table : table[i].key = k

OwnValue(table, k) == table[CHOOSE i \in DOMAIN table : table[i].key = k].value

\* table[k] : own property first, then the prototype chain, else undefined
Lookup(table, k) ==
    Value({IF HasOwn(table, key) THEN OwnValue(table, key)
           ELSE IF key \in PrototypeKeys THEN PrototypeMember
           ELSE NoData : key \in {k}})

Truthy(data) == data.kind # "none"

\* a canonical array index ("0", "7", "12"): such keys come first, in numeric order
IsArrayIndex(k) ==
    /\ k # <<>>
    /\ \A i \in DOMAIN k : IsDigit(k[i])
    /\ (Len(k) = 1 \/ k[1] # "0")

DigitValue(c) == (CHOOSE i \in DOMAIN Digits : Digits[i] = c) - 1

RECURSIVE NumericValue(_)
NumericValue(k) ==
    IF k = <<>> THEN 0
    ELSE 10 * NumericValue(SubSeq(k, 1, Len(k) - 1)) + DigitValue(k[Len(k)])

\* where a new property lands in property order
InsertAt(table, k) ==
    IF IsArrayIndex(k)
    THEN Cardinality({i \in DOMAIN table :
             IsArrayIndex(table[i].key) /\ NumericValue(table[i].key) < NumericValue(k)}) + 1
    ELSE Len(table) + 1

\* table[k] = v : an existing property keeps its place (last write wins).  The
\* rows of the bounded checks hold no address that normalises to "__proto__",
\* the one name whose assignment defines no own property.
SetProp(table, k, v) ==
    Value({IF HasOwn(t, key)
           THEN [i \in DOMAIN t |-> IF t[i].key = key THEN e ELSE t[i]]
           ELSE Value({SubSeq(t, 1, at - 1) \o <<e>> \o SubSeq(t, at, Len(t)) :
                       at \in {InsertAt(t, key)}}) :
           t \in {table}, key \in {k}, e \in {[key |-> k, value |-> v]}})

(***************************************************************************)
(* loadSpreadsheetFromUrl: one source row to one record.  A row holds the  *)
(* address and, per numeric field, the first truthy cell among the         *)
(* accepted header spellings (Undefined when there is none).               *)
(***************************************************************************)
parseFloat(v) == IF v.t = "num" THEN v ELSE NaN

\* v ?? dflt, which keeps 0 and NaN
OrElse_NullishOnly(v, dflt) == IF v.t \in {"undefined", "null"} THEN dflt ELSE v

\* v || dflt
OrElse(v, dflt) == IF Falsy(v) THEN dflt ELSE v

parseAvailabilityFactor(cell) ==
    Value({IF Gt(parsed, Zero) /\ Gt(One, parsed) THEN Mul(parsed, Int2Num(100)) ELSE parsed :
           parsed \in {OrElse(parseFloat(cell), Int2Num(DefaultAvailabilityFactor))}})

parseRow(row) ==
    [kind |-> "row",
     panels |-> OrElse(parseFloat(OrElse(row.panels, Zero)), Zero),
     confidence |-> OrElse(parseFloat(OrElse(row.confidence, Zero)), Zero),
     annualOutput |-> OrElse(parseFloat(OrElse(row.annualOutput, Zero)), Zero),
     kwp |-> OrElse(parseFloat(OrElse(row.kwp, Zero)), Zero),
     kwhPerKwpPerYear |->
         OrElse(parseFloat(OrElse(row.kwhPerKwpPerYear, Int2Num(DefaultKwhPerKwpPerYear))),
                Int2Num(DefaultKwhPerKwpPerYear)),
     availabilityFactor |-> parseAvailabilityFactor(row.availabilityFactor),
     avgPanelOutput |->
         OrElse(parseFloat(OrElse(row.avgPanelOutput, Int2Num(DefaultAvgPanelOutput))),
                Int2Num(DefaultAvgPanelOutput)),
     originalAddress |-> row.Address]

\* jsonData.forEach(...) from row i on: rows without an address are skipped
RECURSIVE addressMapOf(_, _, _)
addressMapOf(rows, i, addressMap) ==
    IF i > Len(rows) THEN addressMap
    ELSE IF rows[i].Address = <<>> THEN addressMapOf(rows, i + 1, addressMap)
    ELSE Value({addressMapOf(rows, i + 1, m) :
                m \in {SetProp(addressMap, loaderNormalizeAddress(rows[i].Address),
                               parseRow(rows[i]))}})

loadSpreadsheetFromUrl(rows) == addressMapOf(rows, 1, <<>>)

(***************************************************************************)
(* The matching tiers of App.handleSearch                                  *)
(***************************************************************************)
\* "Must match number if both have numbers": the entry is skipped (continue)
NumberMismatch(searchParts, keyParts) ==
    /\ searchParts.number # <<>>
    /\ keyParts.number # <<>>
    /\ searchParts.number # keyParts.number

\* value.originalAddress || key
EntryAddress(entry) ==
    IF entry.value.originalAddress # <<>> THEN entry.value.originalAddress ELSE entry.key

containsMatch(searchParts, key) ==
    /\ Includes(key, searchParts.street)
    /\ (searchParts.number = <<>> \/ Includes(key, searchParts.number))

\* const score = containsMatch ? 0.9 : streetSimilarity
scoreOf(searchParts, keyParts, key) ==
    IF containsMatch(searchParts, key)
    THEN Num(9, 10)
    ELSE calculateSimilarity(searchParts.street, keyParts.street)

\* bestScore = score; bestMatch = key; data = value
Better(entry, score) ==
    [bestMatch |-> entry.key, bestScore |-> score, data |-> entry.value, found |-> TRUE]

\* one iteration of for (const [key, value] of Object.entries(spreadsheetData))
structuralStep_LaterWinsTies(best, searchParts, entry) ==
    Value({IF NumberMismatch(searchParts, keyParts) THEN best
           ELSE Value({IF ~Gt(best.bestScore, score) /\ Gt(score, Num(6, 10))
                       THEN Better(entry, score) ELSE best :
                       score \in {scoreOf(searchParts, keyParts, entry.key)}}) :
           keyParts \in {extractStreetAndNumber(EntryAddress(entry))}})

structuralStep_NoNumberCheck(best, searchParts, entry) ==
    Value({Value({IF Gt(score, best.bestScore) /\ Gt(score, Num(6, 10))
                  THEN Better(entry, score) ELSE best :
                  score \in {scoreOf(searchParts, keyParts, entry.key)}}) :
           keyParts \in {extractStreetAndNumber(EntryAddress(entry))}})

structuralStep(best, searchParts, entry) ==
    Value({IF NumberMismatch(searchParts, keyParts) THEN best
           ELSE Value({IF Gt(score, best.bestScore) /\ Gt(score, Num(6, 10))
                       THEN Better(entry, score) ELSE best :
                       score \in {scoreOf(searchParts, keyParts, entry.key)}}) :
           keyParts \in {extractStreetAndNumber(EntryAddress(entry))}})

\* let bestMatch = null; let bestScore = 0; (data is still falsy here)
NoBest == [bestMatch |-> <<>>, bestScore |-> Zero, data |-> NoData, found |-> FALSE]

RECURSIVE structuralLoop(_, _, _, _)
structuralLoop(table, i, searchParts, best) ==
    IF i > Len(table) THEN best
    ELSE Value({structuralLoop(table, i + 1, searchParts, b) :
                b \in {structuralStep(best, searchParts, table[i])}})

structuralTier(table, searchAddress) ==
    Value({structuralLoop(table, 1, searchParts, NoBest) :
           searchParts \in {extractStreetAndNumber(searchAddress)}})

\* a predicate that tests containment only
fallbackAccepts_SubstringOnly(searchAddress, key) ==
    \E normalizedSearchAddress \in {normalizeAddress(searchAddress)} :
        \/ Includes(key, normalizedSearchAddress)
        \/ Includes(normalizedSearchAddress, key)

\* the predicate of Object.keys(spreadsheetData).find(key => ...)
fallbackAccepts(searchAddress, key) ==
    \E searchParts \in {extractStreetAndNumber(searchAddress)},
       keyParts \in {extractStreetAndNumber(key)},
       normalizedSearchAddress \in {normalizeAddress(searchAddress)} :
        IF /\ searchParts.number # <<>>
           /\ keyParts.number # <<>>
           /\ searchParts.number = keyParts.number
        THEN Gt(calculateSimilarity(searchParts.street, keyParts.street), Num(5, 10))
        ELSE \/ Includes(key, normalizedSearchAddress)
             \/ Includes(normalizedSearchAddress, key)

\* if (matchingKey) {...} : an empty key is falsy and assigns nothing
fallbackTier(table, searchAddress) ==
    Value({IF hits = {} \/ table[Min(hits)].key = <<>>
           THEN [found |-> FALSE, key |-> <<>>, data |-> NoData]
           ELSE [found |-> TRUE, key |-> table[Min(hits)].key,
                 data |-> Lookup(table, table[Min(hits)].key)] :
           hits \in {{i \in DOMAIN table : fallbackAccepts(searchAddress, table[i].key)}}})

\* what the tiers after the exact one yield
laterTiers(normalizedSearchAddress, structural, fallback) ==
    IF Truthy(structural.data)
    THEN [data |-> structural.data,
          matchedKey |-> IF structural.bestMatch # <<>> THEN structural.bestMatch
                         ELSE normalizedSearchAddress,
          tier |-> "structural", best |-> structural]
    ELSE IF fallback.found
    THEN [data |-> fallback.data, matchedKey |-> fallback.key, tier |-> "fallback",
          best |-> structural]
    ELSE [data |-> NoData, matchedKey |-> normalizedSearchAddress, tier |-> "none",
          best |-> structural]

\* lines 563-629: the record, the key it was found under, the tier that found it
\* and the final state of the structural loop (NoBest when the loop did not run);
\* if (bestMatch) matchedKey = bestMatch leaves matchedKey alone for an empty key
matchAddress_StructuralFirst(table, searchAddress) ==
    Value({IF Truthy(structural.data)
           THEN laterTiers(normalizedSearchAddress, structural, fallback)
           ELSE IF Truthy(exact)
           THEN [data |-> exact, matchedKey |-> normalizedSearchAddress, tier |-> "exact",
                 best |-> NoBest]
           ELSE laterTiers(normalizedSearchAddress, structural, fallback) :
           normalizedSearchAddress \in {normalizeAddress(searchAddress)},
           exact \in {Lookup(table, normalizeAddress(searchAddress))},
           structural \in {structuralTier(table, searchAddress)},
           fallback \in {fallbackTier(table, searchAddress)}})

matchAddress(table, searchAddress) ==
    Value({IF Truthy(exact)
           THEN [data |-> exact, matchedKey |-> normalizedSearchAddress, tier |-> "exact",
                 best |-> NoBest]
           ELSE laterTiers(normalizedSearchAddress, structural, fallback) :
           normalizedSearchAddress \in {normalizeAddress(searchAddress)},
           exact \in {Lookup(table, normalizeAddress(searchAddress))},
           structural \in {structuralTier(table, searchAddress)},
           fallback \in {fallbackTier(table, searchAddress)}})

NoMatch == [data |-> NoData, matchedKey |-> <<>>, tier |-> "none", best |-> NoBest]

(***************************************************************************)
(* Named strings: the examples of the specification and of the tests, and  *)
(* the inputs of the bounded checks.                                       *)
(***************************************************************************)
MainStQuotedPadded == <<" ","\"","M","a","i","n"," ","S","t","."," ","1","2","\""," ">>
MainStQuoted == <<"\"","M","a","i","n"," ","S","t","."," ","1","2","\"">>
MainSt12 == <<"M","a","i","n"," ","S","t","."," ","1","2">>
MainSt12Key == <<"m","a","i","n"," ","s","t"," ","1","2">>
MainSt7 == <<"m","a","i","n"," ","s","t"," ","7">>
MainSt8 == <<"m","a","i","n"," ","s","t"," ","8">>
MainSt1 == <<"m","a","i","n"," ","s","t"," ","1">>
MainSt == <<"m","a","i","n"," ","s","t">>
Abc1 == <<"a","b","c"," ","1">>
Ab1 == <<"a","b"," ","1">>
Abcd1 == <<"a","b","c","d"," ","1">>
Abcde1 == <<"a","b","c","d","e"," ","1">>
Dot == <<".">>
OneA == <<"1"," ","a">>
OneABc == <<"1"," ","a"," ","b","c">>
FirstSt12 == <<"1","e"," ","s","t"," ","1","2">>
Unit1Block2 == <<"a","1"," ","b"," ","2">>
MainSt23a == <<"m","a","i","n"," ","s","t"," ","2","3","a">>
Twelve == <<"1","2">>
Seven == <<"7">>
Zzz == <<"z","z","z">>
Constructor == <<"c","o","n","s","t","r","u","c","t","o","r">>

(***************************************************************************)
(* Initial values of the application state (App, PdokMap).                 *)
(***************************************************************************)
DefaultCoordinates == [lat |-> "DEFAULT_LAT", lon |-> "DEFAULT_LON"]

NoSearch ==
    [query |-> <<>>, outcome |-> "none", tier |-> "none", matchedKey |-> <<>>,
     data |-> NoData, viewBefore |-> [center |-> DefaultCoordinates, zoom |-> 17],
     geocode |-> "none"]

\* the map props: address={solarPanelData?.originalAddress || address}
addressProp(data, addr) == IF data.originalAddress # <<>> THEN data.originalAddress ELSE addr

\* the two zoom levels exchanged
zoomFor_Exchanged(addrProp) == IF addrProp # <<>> THEN 17 ELSE 19

\* setView([lat, lon], address ? 19 : 17)
zoomFor(addrProp) == IF addrProp # <<>> THEN 19 ELSE 17

(***************************************************************************)
(* SolarPanelInfo: state, refs and effects.  The component stays mounted;  *)
(* App passes no onDataChange.  A record is identified by its value: the   *)
(* records of one table differ in originalAddress.                         *)
(***************************************************************************)
\* useState(875), useState(99), useState(435), useState(0), useState(0),
\* useRef(true), useRef(null); nothing scheduled
NoEdit == [field |-> "none", typed |-> Undefined]

InfoInit ==
    [kwhPerKwpPerYear |-> Int2Num(DefaultKwhPerKwpPerYear),
     availabilityFactor |-> Int2Num(DefaultAvailabilityFactor),
     avgPanelOutput |-> Int2Num(DefaultAvgPanelOutput),
     calculatedKwp |-> Zero,
     calculatedAnnualOutput |-> Zero,
     isInitialLoad |-> TRUE,
     previousData |-> NoData,
     timer |-> FALSE,       \* a setTimeout(() => isInitialLoadRef.current = false, 0) is due
     rerender |-> FALSE,    \* a render with changed parameters is due
     edited |-> FALSE,      \* an input's onChange ran since the record was handed over
     lastEdit |-> NoEdit]   \* the input and the e.target.value of the last onChange

\* x !== undefined && x !== null
Present(v) == v.t \notin {"undefined", "null"}

\* x !== undefined && x !== null ? x : dflt
PresentOr(v, dflt) == IF Present(v) THEN v ELSE dflt

\* if (v > 0 && v < 1) v = v * 100
rescaleFraction_Never(v) == v

rescaleFraction(v) ==
    IF v.t = "num" /\ Gt(v, Zero) /\ Gt(One, v) THEN Mul(v, Int2Num(100)) ELSE v

\* the initialisation effect's newAvailabilityFactor
newAvailabilityFactor(data) ==
    rescaleFraction(PresentOr(data.availabilityFactor, Int2Num(DefaultAvailabilityFactor)))

\* x !== undefined && x !== null && x > 0
PresentPositive(v) == v.t = "num" /\ v.n > 0

\* the values the initialisation effect sets for a record with a panel count
seededKwp(data, newAvgPanelOutput) ==
    IF PresentPositive(data.kwp) THEN data.kwp
    ELSE calculateKwp(data.panels, newAvgPanelOutput)

seededAnnualOutput(data, kwp, newKwhPerKwpPerYear, newAvailability) ==
    IF PresentPositive(data.annualOutput) THEN data.annualOutput
    ELSE calculateAnnualOutput(kwp, newKwhPerKwpPerYear, newAvailability)

\* the state the initialisation effect sets, given the values it computed
seeded(i, data, y, a, w) ==
    Value({[i EXCEPT !.kwhPerKwpPerYear = y,
                     !.availabilityFactor = a,
                     !.avgPanelOutput = w,
                     !.calculatedKwp = IF Present(data.panels) THEN kwp ELSE Zero,
                     !.calculatedAnnualOutput =
                         IF Present(data.panels)
                         THEN seededAnnualOutput(data, kwp, y, a) ELSE Zero,
                     !.timer = TRUE] :
           kwp \in {seededKwp(data, w)}})

\* useEffect(..., [data, onDataChange]) for a truthy data
\* an effect that seeds only for a record other than the previous one
initEffect_SeedsOnlyNewData(i, data) ==
    IF i.previousData = data THEN [i EXCEPT !.timer = TRUE]
    ELSE seeded([i EXCEPT !.isInitialLoad = TRUE, !.previousData = data], data,
                PresentOr(data.kwhPerKwpPerYear, Int2Num(DefaultKwhPerKwpPerYear)),
                newAvailabilityFactor(data),
                PresentOr(data.avgPanelOutput, Int2Num(DefaultAvgPanelOutput)))

initEffect(i, data) ==
    seeded([i EXCEPT !.isInitialLoad = IF i.previousData # data THEN TRUE ELSE @,
                     !.previousData = data],
           data,
           PresentOr(data.kwhPerKwpPerYear, Int2Num(DefaultKwhPerKwpPerYear)),
           newAvailabilityFactor(data),
           PresentOr(data.avgPanelOutput, Int2Num(DefaultAvgPanelOutput)))

\* useEffect(..., [data, kwhPerKwpPerYear, availabilityFactor, avgPanelOutput,
\* onDataChange]): i holds the refs and the state updates queued so far, shown is
\* the state of the render the effect belongs to
recalcEffect_PrefersSpreadsheetValues(i, shown, data) ==
    IF i.isInitialLoad THEN i
    ELSE IF Truthy(data) /\ Present(data.panels)
    THEN Value({[i EXCEPT !.calculatedKwp = kwp,
                          !.calculatedAnnualOutput =
                              seededAnnualOutput(data, kwp, shown.kwhPerKwpPerYear,
                                                 shown.availabilityFactor)] :
                kwp \in {seededKwp(data, shown.avgPanelOutput)}})
    ELSE i

recalcEffect(i, shown, data) ==
    IF i.isInitialLoad THEN i
    ELSE IF Truthy(data) /\ Present(data.panels)
    THEN Value({[i EXCEPT !.calculatedKwp = kwp,
                          !.calculatedAnnualOutput =
                              calculateAnnualOutput(kwp, shown.kwhPerKwpPerYear,
                                                    shown.availabilityFactor)] :
                kwp \in {calculateKwp(data.panels, shown.avgPanelOutput)}})
    ELSE i

\* the three editable parameters
Parameters(i) == <<i.kwhPerKwpPerYear, i.availabilityFactor, i.avgPanelOutput>>

\* the effects after a render in which the data prop changed: both effects run, in
\* the order they are declared; a changed parameter calls for another render
afterDataChange(i, data) ==
    Value({[k EXCEPT !.rerender = (Parameters(k) # Parameters(i))] :
           k \in {recalcEffect(IF Truthy(data) THEN initEffect(i, data) ELSE i, i, data)}})

\* the effects of the render that follows setSolarPanelData(data)
renderData(i, oldData, data) ==
    IF data = oldData THEN i ELSE afterDataChange(i, data)

\* handleKwhPerKwpChange: isNaN(numValue) ? 875 : numValue
handleKwhPerKwpChange_DefaultOnFalsy(typed) ==
    OrElse(parseFloat(typed), Int2Num(DefaultKwhPerKwpPerYear))

handleKwhPerKwpChange(typed) ==
    IF parseFloat(typed).t = "NaN" THEN Int2Num(DefaultKwhPerKwpPerYear)
    ELSE parseFloat(typed)

\* Math.max(0, Math.min(100, value))
clampPercent(v) ==
    IF Gt(Zero, v) THEN Zero ELSE IF Gt(v, Int2Num(100)) THEN Int2Num(100) ELSE v

\* handleAvailabilityFactorChange: default, rescaling of a fraction, clamping
handleAvailabilityFactorChange(typed) ==
    clampPercent(rescaleFraction(
        IF parseFloat(typed).t = "NaN" THEN Int2Num(DefaultAvailabilityFactor)
        ELSE parseFloat(typed)))

\* handleAvgPanelOutputChange: isNaN(numValue) ? 435 : numValue
handleAvgPanelOutputChange(typed) ==
    IF parseFloat(typed).t = "NaN" THEN Int2Num(DefaultAvgPanelOutput)
    ELSE parseFloat(typed)

\* the render after a handler's setState: no render when the value is the one the
\* state holds; otherwise the recalculation effect runs with the new parameters
afterEdit(i, j, data) ==
    IF Parameters(j) = Parameters(i)
    THEN [i EXCEPT !.edited = TRUE, !.lastEdit = j.lastEdit]
    ELSE recalcEffect([j EXCEPT !.edited = TRUE], j, data)

AppInit ==
    /\ info = InfoInit
    /\ address = <<>>
    /\ solarPanelData = NoData
    /\ coordinates = DefaultCoordinates
    /\ loading = FALSE
    /\ error = "null"
    /\ spreadsheetData = <<>>
    /\ loadState = "pending"
    /\ pending = <<>>
    /\ mapView = [center |-> DefaultCoordinates, zoom |-> zoomFor(<<>>)]
    /\ lastSearch = NoSearch

appVars == <<address, solarPanelData, coordinates, loading, error, spreadsheetData,
             loadState, pending, mapView, lastSearch, info>>

CalcIdle ==
    [op |-> "none", panels |-> Undefined, avgPanelOutput |-> Undefined,
     kwpArg |-> Undefined, kwhPerKwpPerYear |-> Undefined,
     availabilityFactor |-> Undefined, kwp |-> Undefined, annualOutput |-> Undefined,
     kwpDoubled |-> Undefined, otherKwhPerKwpPerYear |-> Undefined,
     otherAvailabilityFactor |-> Undefined, otherKwp |-> Undefined]

NoParts == [street |-> <<>>, number |-> <<>>]

NormIdle == [op |-> "none", input |-> <<>>, out |-> <<>>, parts |-> NoParts]

MatchIdle == [pc |-> "idle", table |-> <<>>, query |-> <<>>, result |-> NoMatch]

LoadIdle == [pc |-> "idle", rows |-> <<>>, table |-> <<>>]

SimIdle == [pc |-> "idle", str1 |-> <<>>, str2 |-> <<>>, similarity |-> Zero]

(***************************************************************************)
(* SpecCalc: the calculator applied to bounded inputs.                     *)
(***************************************************************************)
MaxPanels == 3

PanelInputs ==
    {Undefined, Null, NaN} \cup {Int2Num(i) : i \in (-1)..MaxPanels}
        \cup {Int2Num(10), Num(31, 2)}
WattInputs == {Undefined, Int2Num(-435), Zero, Int2Num(400), Int2Num(435), Int2Num(500)}
KwpInputs == {Undefined, Int2Num(-1), Zero, Num(435, 100), Int2Num(5)}
YieldInputs == {Undefined, Int2Num(-1), Zero, Int2Num(875), Int2Num(900)}
AvailabilityInputs == {Undefined, Int2Num(-5), Zero, Int2Num(50), Int2Num(99), Int2Num(100)}

\* 2 * v
Double(v) ==
    CASE v.t = "num" -> Mul(Int2Num(2), v)
      [] v.t = "null" -> Zero
      [] OTHER -> NaN

InitCalc ==
    /\ \E p \in PanelInputs, w \in WattInputs, y \in YieldInputs, a \in AvailabilityInputs :
          calc = [CalcIdle EXCEPT !.panels = p, !.avgPanelOutput = w,
                                  !.kwhPerKwpPerYear = y, !.availabilityFactor = a]
    /\ norm = NormIdle
    /\ match = MatchIdle
    /\ load = LoadIdle
    /\ sim = SimIdle
    /\ AppInit

\* calculateKwp(panels, avgPanelOutput) and calculateKwp(2 * panels, avgPanelOutput)
CalcKwp ==
    /\ calc.op = "none"
    /\ calc' = [calc EXCEPT !.op = "kwp",
                            !.kwp = calculateKwp(calc.panels, calc.avgPanelOutput),
                            !.kwpDoubled = calculateKwp(Double(calc.panels),
                                                        calc.avgPanelOutput)]
    /\ UNCHANGED <<norm, match, load, sim, appVars>>

\* calculateAnnualOutput(kwp, kwhPerKwpPerYear, availabilityFactor)
CalcAnnualOutput ==
    /\ calc.op = "none"
    /\ \E k \in KwpInputs :
          calc' = [calc EXCEPT !.op = "annual", !.kwpArg = k,
                       !.annualOutput = calculateAnnualOutput(k, calc.kwhPerKwpPerYear,
                                                              calc.availabilityFactor)]
    /\ UNCHANGED <<norm, match, load, sim, appVars>>

CalcParams(c, y, a) ==
    [panels |-> c.panels, avgPanelOutput |-> c.avgPanelOutput,
     kwhPerKwpPerYear |-> y, availabilityFactor |-> a]

\* calculateSolarPanelOutput(params), and the same call with another yield factor
\* or another availability
CalcSolarPanelOutput ==
    /\ calc.op = "none"
    /\ \E y \in YieldInputs, a \in AvailabilityInputs :
          /\ y = calc.kwhPerKwpPerYear \/ a = calc.availabilityFactor
          /\ \E r \in {calculateSolarPanelOutput(
                         CalcParams(calc, calc.kwhPerKwpPerYear, calc.availabilityFactor))},
                o \in {calculateSolarPanelOutput(CalcParams(calc, y, a))} :
                 calc' = [calc EXCEPT !.op = "output", !.kwp = r.kwp,
                              !.annualOutput = r.annualOutput,
                              !.otherKwhPerKwpPerYear = y,
                              !.otherAvailabilityFactor = a, !.otherKwp = o.kwp]
    /\ UNCHANGED <<norm, match, load, sim, appVars>>

NextCalc == CalcKwp \/ CalcAnnualOutput \/ CalcSolarPanelOutput

SpecCalc == InitCalc /\ [][NextCalc]_vars

IsPositive(v) == v.t = "num" /\ v.n > 0

\* C1: calculateKwp returns panels * avgPanelOutput / 1000 when both arguments are
\* positive and 0 when either is missing, zero or negative; doubling a positive
\* panel count doubles the result.
C1_KwpContract ==
    calc.op = "kwp" =>
        /\ IF IsPositive(calc.panels) /\ IsPositive(calc.avgPanelOutput)
           THEN /\ calc.kwp = Num(calc.panels.n * calc.avgPanelOutput.n,
                                  calc.panels.d * calc.avgPanelOutput.d * 1000)
                /\ calc.kwpDoubled = Num(2 * calc.kwp.n, calc.kwp.d)
           ELSE calc.kwp = Zero

C1_Witness ==
    /\ calc.op = "kwp"
    /\ calc.panels = Int2Num(10)
    /\ calc.avgPanelOutput = Int2Num(435)
    /\ calc.kwp = Num(435, 100)
    /\ calc.kwpDoubled = Num(870, 100)

C3_SolarPanelOutputContract ==
    calc.op = "output" =>
        LET y == IF calc.kwhPerKwpPerYear = Undefined THEN Int2Num(875)
                 ELSE calc.kwhPerKwpPerYear
            a == IF calc.availabilityFactor = Undefined THEN Int2Num(99)
                 ELSE calc.availabilityFactor
            kwp == IF IsPositive(calc.panels) /\ IsPositive(calc.avgPanelOutput)
                   THEN Num(calc.panels.n * calc.avgPanelOutput.n,
                            calc.panels.d * calc.avgPanelOutput.d * 1000)
                   ELSE Zero
        IN  /\ calc.kwp = kwp
            /\ calc.annualOutput =
                  IF IsPositive(kwp) /\ IsPositive(y) /\ IsPositive(a)
                  THEN Num(kwp.n * y.n * a.n, kwp.d * y.d * a.d * 100)
                  ELSE Zero
            /\ calc.otherKwp = calc.kwp

\* 10 panels of 435 Wp with both parameters omitted: 4.35 kWp, 3768.1875 kWh
C3_Witness ==
    /\ calc.op = "output"
    /\ calc.panels = Int2Num(10)
    /\ calc.avgPanelOutput = Int2Num(435)
    /\ calc.kwhPerKwpPerYear = Undefined
    /\ calc.availabilityFactor = Undefined
    /\ calc.kwp = Num(435, 100)
    /\ calc.annualOutput = Num(37681875, 10000)
    /\ calc.otherKwhPerKwpPerYear = Int2Num(900)

(***************************************************************************)
(* SpecNorm: address normalisation applied to every string over a small    *)
(* alphabet (a letter, a capital, a digit, a space, a punctuation mark and *)
(* a quote) and to the named examples.                                     *)
(***************************************************************************)
MaxNormLen == 3

NormAlphabet == {"a", "B", "1", " ", ".", "\""}

StringsUpTo(alphabet, n) == UNION {[1..m -> alphabet] : m \in 0..n}

NormInputs ==
    StringsUpTo(NormAlphabet, MaxNormLen)
        \cup {MainStQuotedPadded, MainStQuoted, MainSt12, MainSt12Key,
              FirstSt12, Unit1Block2, MainSt23a}

InitNorm ==
    /\ \E s \in NormInputs : norm = [NormIdle EXCEPT !.input = s]
    /\ calc = CalcIdle
    /\ match = MatchIdle
    /\ load = LoadIdle
    /\ sim = SimIdle
    /\ AppInit

\* the matcher normalises a query: normalizeAddress(searchAddress)
NormalizeQuery ==
    /\ norm.op = "none"
    /\ norm' = [norm EXCEPT !.op = "normalize", !.out = normalizeAddress(norm.input)]
    /\ UNCHANGED <<calc, match, load, sim, appVars>>

\* loadSpreadsheetFromUrl derives a row's key: normalizeAddress(address)
LoaderKey ==
    /\ norm.op = "none"
    /\ norm.input # <<>>
    /\ norm' = [norm EXCEPT !.op = "loaderKey", !.out = loaderNormalizeAddress(norm.input)]
    /\ UNCHANGED <<calc, match, load, sim, appVars>>

\* readSpreadsheet derives a row's key: address.toLowerCase().trim(); rows whose
\* key is empty are skipped
ReadSpreadsheetKey ==
    /\ norm.op = "none"
    /\ readSpreadsheetKey(norm.input) # <<>>
    /\ norm' = [norm EXCEPT !.op = "readKey", !.out = readSpreadsheetKey(norm.input)]
    /\ UNCHANGED <<calc, match, load, sim, appVars>>

\* a normalised string is normalised again, as extractStreetAndNumber does with the
\* normalised query and with a stored key
Renormalize ==
    /\ norm.op = "normalize"
    /\ norm' = [norm EXCEPT !.op = "renormalize", !.input = norm.out,
                            !.out = normalizeAddress(norm.out)]
    /\ UNCHANGED <<calc, match, load, sim, appVars>>

\* extractStreetAndNumber(addr)
Extract ==
    /\ norm.op = "none"
    /\ norm' = [norm EXCEPT !.op = "extract", !.out = normalizeAddress(norm.input),
                            !.parts = extractStreetAndNumber(norm.input)]
    /\ UNCHANGED <<calc, match, load, sim, appVars>>

NextNorm == NormalizeQuery \/ LoaderKey \/ ReadSpreadsheetKey \/ Renormalize \/ Extract

SpecNorm == InitNorm /\ [][NextNorm]_vars

\* C4: normalize(' "Main St. 12" ') = 'main st 12': the quotes are removed although
\* whitespace surrounds them.
C4_QuotesStrippedInsideWhitespace ==
    (norm.op = "normalize" /\ norm.input = MainStQuotedPadded) => norm.out = MainSt12Key

\* C5: every key a loader produces, from a URL or from a file handle, equals the
\* matcher's normalisation of the row's address.
C5_LoaderKeysAreNormalized ==
    norm.op \in {"loaderKey", "readKey"} => norm.out = normalizeAddress(norm.input)

(***************************************************************************)
(* SpecMatch: the matching tiers applied to every table loaded from up to  *)
(* MaxRows source rows and to every query of a small set.                  *)
(***************************************************************************)
MaxRows == 2

MatchRowAddresses == {MainSt12, MainSt7, MainSt, Abc1, Ab1, Dot, Twelve, OneA}

MatchQueries ==
    {MainSt12, MainSt1, MainSt8, MainSt, Abcde1, Abcd1, Abc1, Constructor, <<>>,
     Twelve, Seven, Zzz, OneABc, Dot}

\* a source row with the given address; the panel count tells rows apart
Row(a) ==
    [Address |-> a, panels |-> Int2Num(Len(a)), confidence |-> Undefined,
     annualOutput |-> Undefined, kwp |-> Undefined, kwhPerKwpPerYear |-> Undefined,
     availabilityFactor |-> Undefined, avgPanelOutput |-> Undefined]

MatchRowLists ==
    UNION {[1..m -> {Row(a) : a \in MatchRowAddresses}] : m \in 1..MaxRows}

InitMatch ==
    /\ \E rows \in MatchRowLists, q \in MatchQueries :
          match = [pc |-> "input", table |-> loadSpreadsheetFromUrl(rows), query |-> q,
                   result |-> NoMatch]
    /\ calc = CalcIdle
    /\ norm = NormIdle
    /\ load = LoadIdle
    /\ sim = SimIdle
    /\ AppInit

\* lines 563-629 of handleSearch on a loaded, non-empty table
RunMatch ==
    /\ match.pc = "input"
    /\ match' = [match EXCEPT !.pc = "done",
                              !.result = matchAddress(match.table, match.query)]
    /\ UNCHANGED <<calc, norm, load, sim, appVars>>

NextMatch == RunMatch

SpecMatch == InitMatch /\ [][NextMatch]_vars

\* C6: if normalize(query) is a key of the table the search returns exactly that
\* key's record, found by the exact tier (the later tiers are not consulted); the
\* query 'Main St. 12' on the table {'main st 12': R} returns R.
C6_ExactTierWins ==
    (match.pc = "done" /\ normalizeAddress(match.query) \in Keys(match.table)) =>
        /\ match.result.tier = "exact"
        /\ match.result.matchedKey = normalizeAddress(match.query)
        /\ \E i \in DOMAIN match.table :
              /\ match.table[i].key = normalizeAddress(match.query)
              /\ match.result.data = match.table[i].value
        /\ match.result.best = NoBest

\* the exact key 'main st' is returned although the entry 'main st 12', earlier
\* in the table, contains the query's street
C6_Witness ==
    /\ match.pc = "done"
    /\ match.query = MainSt
    /\ Len(match.table) = 2
    /\ match.table[1].key = MainSt12Key
    /\ match.table[2].key = MainSt
    /\ match.result.tier = "exact"
    /\ match.result.data.originalAddress = MainSt

\* the house numbers of the query and of the returned record are both present
\* and differ
ReturnedNumberMismatch ==
    /\ Truthy(match.result.data)
    /\ NumberMismatch(extractStreetAndNumber(match.query),
                      extractStreetAndNumber(match.result.data.originalAddress))

\* C7 (as stated): for a query that is no exact key, no tier returns an entry whose
\* house number is present and differs from the query's house number.
C7_NoTierReturnsNumberMismatch ==
    (match.pc = "done" /\ match.result.tier # "exact") => ~ReturnedNumberMismatch

\* C7 (amended): the structural tier never returns an entry whose house number is
\* present and differs from the query's house number.
C7_StructuralTierRejectsNumberMismatch ==
    (match.pc = "done" /\ match.result.tier = "structural") => ~ReturnedNumberMismatch

\* the structural tier skipped 'main st 7' for the query 'abcd 1' and returned
\* 'abc 1'
C7_Witness ==
    /\ match.pc = "done"
    /\ match.query = Abcd1
    /\ Len(match.table) = 2
    /\ match.table[1].key = MainSt7
    /\ match.result.tier = "structural"
    /\ match.result.data.originalAddress = Abc1

\* C8, the claim's scoring of entry i of the table for the query
ClaimedScore(i) ==
    LET parts == extractStreetAndNumber(match.query)
        key == match.table[i].key
    IN  IF Includes(key, parts.street) /\ Includes(key, parts.number)
        THEN Num(9, 10)
        ELSE calculateSimilarity(parts.street,
                 extractStreetAndNumber(match.table[i].value.originalAddress).street)

\* the entries the claim admits: not disqualified, scoring strictly above 0.6
ClaimedCandidates ==
    {i \in DOMAIN match.table :
        /\ ~NumberMismatch(extractStreetAndNumber(match.query),
               extractStreetAndNumber(match.table[i].value.originalAddress))
        /\ Gt(ClaimedScore(i), Num(6, 10))}

\* C8: the structural tier returns the highest-scoring entry among those scoring
\* strictly above 0.6, the earliest in table order on ties, and nothing when no
\* score exceeds 0.6.
C8_StructuralTierPicksBest ==
    (match.pc = "done" /\ match.result.tier # "exact") =>
        IF ClaimedCandidates = {}
        THEN match.result.best = NoBest /\ match.result.tier # "structural"
        ELSE LET w == Min({i \in ClaimedCandidates :
                             \A j \in ClaimedCandidates :
                                 ~Gt(ClaimedScore(j), ClaimedScore(i))})
             IN  /\ match.result.tier = "structural"
                 /\ match.result.best.bestMatch = match.table[w].key
                 /\ match.result.best.bestScore = ClaimedScore(w)
                 /\ match.result.data = match.table[w].value

\* 'abc 1' scores exactly 3/5 for the query 'abcde 1': the structural tier
\* rejects it (and the fallback tier then accepts it)
C8_Witness ==
    /\ match.pc = "done"
    /\ match.query = Abcde1
    /\ Len(match.table) = 1
    /\ match.table[1].key = Abc1
    /\ ClaimedScore(1) = Num(6, 10)
    /\ match.result.best = NoBest
    /\ match.result.tier = "fallback"

(***************************************************************************)
(* Spec: the application.  The dataset is loaded once on mount; every      *)
(* handleSearch call runs to its await (or to its end) in one step; a call *)
(* suspended at await geocodeAddress(...) resumes when the geocoder        *)
(* answers.  Several calls can be suspended at once: nothing sequences or  *)
(* cancels them.  The state updates of one step are rendered together and  *)
(* the PdokMap effect runs after that render.                              *)
(***************************************************************************)
MaxPending == 2

\* a row whose sheet carries the precomputed outputs and its own parameters, the
\* availability written as a fraction
RowWithOutputs(a) ==
    [Row(a) EXCEPT !.annualOutput = Int2Num(800), !.kwp = Int2Num(1),
                   !.kwhPerKwpPerYear = Int2Num(900),
                   !.availabilityFactor = Num(99, 100)]

\* a row whose availability cell is a fraction below one percent
RowWithSmallFraction(a) == [Row(a) EXCEPT !.availabilityFactor = Num(1, 400)]

AppDatasets ==
    {<<>>, <<RowWithOutputs(MainSt12)>>, <<RowWithSmallFraction(MainSt12), Row(Abc1)>>}

AppQueries == {MainSt12, Zzz, Constructor}

GeoCoords == {[lat |-> "lat1", lon |-> "lon1"]}

\* PdokMap's effect, dependencies [address, coordinates]: it runs when the address
\* prop changed or setCoordinates stored a new object
mapEffect(view, oldProp, newProp, newCoordinates, coordinatesSet) ==
    IF newProp # oldProp \/ coordinatesSet
    THEN [center |-> newCoordinates, zoom |-> zoomFor(newProp)]
    ELSE view

RemoveAt(seq, i) == SubSeq(seq, 1, i - 1) \o SubSeq(seq, i + 1, Len(seq))

\* a load that could complete again and replace the table
LoadResolve_Reloads ==
    /\ loadState \in {"pending", "loaded"}
    /\ \E rows \in AppDatasets : spreadsheetData' = loadSpreadsheetFromUrl(rows)
    /\ loadState' = "loaded"
    /\ UNCHANGED <<calc, norm, match, load, sim,
                   address, solarPanelData, coordinates, loading,
                   error, pending, mapView, lastSearch, info>>

\* the mount effect: loadSpreadsheetFromUrl resolved, setSpreadsheetData(data)
LoadResolve ==
    /\ loadState = "pending"
    /\ \E rows \in AppDatasets : spreadsheetData' = loadSpreadsheetFromUrl(rows)
    /\ loadState' = "loaded"
    /\ UNCHANGED <<calc, norm, match, load, sim,
                   address, solarPanelData, coordinates, loading,
                   error, pending, mapView, lastSearch, info>>

\* the mount effect: loadSpreadsheetFromUrl threw, setError(...)
LoadReject ==
    /\ loadState = "pending"
    /\ loadState' = "failed"
    /\ error' = "Failed to load solar panel data"
    /\ UNCHANGED <<calc, norm, match, load, sim,
                   address, solarPanelData, coordinates, loading,
                   spreadsheetData, pending, mapView, lastSearch, info>>

\* a handleSearch without the table-empty guard
searchCall_NoEmptyGuard(table, searchAddress, view) ==
    Value({[query |-> searchAddress,
            outcome |-> IF Truthy(m.data) THEN "geocoding" ELSE "notFound",
            tier |-> m.tier, matchedKey |-> m.matchedKey, data |-> m.data,
            viewBefore |-> view,
            geocode |-> IF Truthy(m.data) THEN "pending" ELSE "none"] :
           m \in {matchAddress(table, searchAddress)}})

\* a handleSearch that asked the geocoder whatever the matcher returned
searchCall_GeocodesUnmatched(table, searchAddress, view) ==
    IF Len(table) = 0
    THEN [query |-> searchAddress, outcome |-> "rejected", tier |-> "none",
          matchedKey |-> <<>>, data |-> NoData, viewBefore |-> view,
          geocode |-> "none"]
    ELSE Value({[query |-> searchAddress, outcome |-> "geocoding",
                 tier |-> m.tier, matchedKey |-> m.matchedKey, data |-> m.data,
                 viewBefore |-> view, geocode |-> "pending"] :
                m \in {matchAddress(table, searchAddress)}})

\* what one handleSearch call found; the table-empty guard returns before matching
searchCall(table, searchAddress, view) ==
    IF Len(table) = 0
    THEN [query |-> searchAddress, outcome |-> "rejected", tier |-> "none",
          matchedKey |-> <<>>, data |-> NoData, viewBefore |-> view,
          geocode |-> "none"]
    ELSE Value({[query |-> searchAddress,
                 outcome |-> IF Truthy(m.data) THEN "geocoding" ELSE "notFound",
                 tier |-> m.tier, matchedKey |-> m.matchedKey, data |-> m.data,
                 viewBefore |-> view,
                 geocode |-> IF Truthy(m.data) THEN "pending" ELSE "none"] :
                m \in {matchAddress(table, searchAddress)}})

\* a handleSearch that dropped the requests of earlier searches
Search_CancelsEarlier ==
    /\ Len(pending) < MaxPending
    /\ ~info.rerender /\ ~info.timer
    /\ info' = [renderData(info, solarPanelData, NoData)
                   EXCEPT !.edited = FALSE, !.lastEdit = NoEdit]
    /\ \E searchAddress \in AppQueries :
        \E call \in {searchCall(spreadsheetData, searchAddress, mapView)} :
            /\ address' = searchAddress
            /\ solarPanelData' = NoData
            /\ loading' = (call.outcome = "geocoding")
            /\ error' = CASE call.outcome = "rejected" -> "Solar panel data is still loading"
                          [] call.outcome = "notFound" -> "The address is not available"
                          [] OTHER -> "null"
            /\ pending' = IF call.outcome = "geocoding" THEN <<call>> ELSE <<>>
            /\ lastSearch' = call
            /\ mapView' = mapEffect(mapView, addressProp(solarPanelData, address),
                                    addressProp(NoData, searchAddress), coordinates, FALSE)
    /\ UNCHANGED <<calc, norm, match, load, sim,
                   coordinates, spreadsheetData, loadState>>

\* handleSearch(searchAddress) up to its first await, or to its end
Search ==
    /\ Len(pending) < MaxPending
    /\ ~info.rerender /\ ~info.timer
    /\ info' = [renderData(info, solarPanelData, NoData)
                   EXCEPT !.edited = FALSE, !.lastEdit = NoEdit]
    /\ \E searchAddress \in AppQueries :
        \E call \in {searchCall(spreadsheetData, searchAddress, mapView)} :
            /\ address' = searchAddress
            /\ solarPanelData' = NoData
            /\ loading' = (call.outcome = "geocoding")
            /\ error' = CASE call.outcome = "rejected" -> "Solar panel data is still loading"
                          [] call.outcome = "notFound" -> "The address is not available"
                          [] OTHER -> "null"
            /\ pending' = IF call.outcome = "geocoding" THEN Append(pending, call)
                          ELSE pending
            /\ lastSearch' = call
            /\ mapView' = mapEffect(mapView, addressProp(solarPanelData, address),
                                    addressProp(NoData, searchAddress), coordinates, FALSE)
    /\ UNCHANGED <<calc, norm, match, load, sim,
                   coordinates, spreadsheetData, loadState>>

\* geocodeAddress resolved: setCoordinates, setSolarPanelData, setError(null) and,
\* in finally, setLoading(false)
GeocodeResolve ==
    \E i \in DOMAIN pending, coords \in GeoCoords :
        /\ ~info.rerender
        /\ info' = [renderData(info, solarPanelData, pending[i].data)
                       EXCEPT !.edited = FALSE, !.lastEdit = NoEdit]
        /\ coordinates' = coords
        /\ solarPanelData' = pending[i].data
        /\ error' = "null"
        /\ loading' = FALSE
        /\ pending' = RemoveAt(pending, i)
        /\ lastSearch' = [pending[i] EXCEPT !.outcome = "found", !.geocode = "resolved"]
        /\ mapView' = mapEffect(mapView, addressProp(solarPanelData, address),
                                addressProp(pending[i].data, address), coords, TRUE)
        /\ UNCHANGED <<calc, norm, match, load, sim,
                       address, spreadsheetData, loadState>>

\* a catch that treated the geocoder's failure as a failed search
GeocodeReject_FailsTheSearch ==
    \E i \in DOMAIN pending :
        /\ ~info.rerender
        /\ info' = renderData(info, solarPanelData, NoData)
        /\ solarPanelData' = NoData
        /\ error' = "The address is not available"
        /\ loading' = FALSE
        /\ pending' = RemoveAt(pending, i)
        /\ lastSearch' = [pending[i] EXCEPT !.outcome = "notFound", !.geocode = "failed"]
        /\ mapView' = mapEffect(mapView, addressProp(solarPanelData, address),
                                addressProp(NoData, address), coordinates, FALSE)
        /\ UNCHANGED <<calc, norm, match, load, sim,
                       address, coordinates, spreadsheetData,
                       loadState>>

\* a catch after which setLoading(false) is never reached
GeocodeReject_StaysLoading ==
    \E i \in DOMAIN pending :
        /\ ~info.rerender
        /\ info' = [renderData(info, solarPanelData, pending[i].data)
                       EXCEPT !.edited = FALSE, !.lastEdit = NoEdit]
        /\ solarPanelData' = pending[i].data
        /\ error' = "null"
        /\ pending' = RemoveAt(pending, i)
        /\ lastSearch' = [pending[i] EXCEPT !.outcome = "found", !.geocode = "failed"]
        /\ mapView' = mapEffect(mapView, addressProp(solarPanelData, address),
                                addressProp(pending[i].data, address), coordinates, FALSE)
        /\ UNCHANGED <<calc, norm, match, load, sim,
                       address, coordinates, loading, spreadsheetData,
                       loadState>>

\* a catch that leaves the error message as it is
GeocodeReject_KeepsError ==
    \E i \in DOMAIN pending :
        /\ ~info.rerender
        /\ info' = [renderData(info, solarPanelData, pending[i].data)
                       EXCEPT !.edited = FALSE, !.lastEdit = NoEdit]
        /\ solarPanelData' = pending[i].data
        /\ loading' = FALSE
        /\ pending' = RemoveAt(pending, i)
        /\ lastSearch' = [pending[i] EXCEPT !.outcome = "found", !.geocode = "failed"]
        /\ mapView' = mapEffect(mapView, addressProp(solarPanelData, address),
                                addressProp(pending[i].data, address), coordinates, FALSE)
        /\ UNCHANGED <<calc, norm, match, load, sim,
                       address, coordinates, error, spreadsheetData,
                       loadState>>

\* geocodeAddress rejected: the catch sets the record and leaves the coordinates
GeocodeReject ==
    \E i \in DOMAIN pending :
        /\ ~info.rerender
        /\ info' = [renderData(info, solarPanelData, pending[i].data)
                       EXCEPT !.edited = FALSE, !.lastEdit = NoEdit]
        /\ solarPanelData' = pending[i].data
        /\ error' = "null"
        /\ loading' = FALSE
        /\ pending' = RemoveAt(pending, i)
        /\ lastSearch' = [pending[i] EXCEPT !.outcome = "found", !.geocode = "failed"]
        /\ mapView' = mapEffect(mapView, addressProp(solarPanelData, address),
                                addressProp(pending[i].data, address), coordinates, FALSE)
        /\ UNCHANGED <<calc, norm, match, load, sim,
                       address, coordinates, spreadsheetData,
                       loadState>>

\* the render React scheduled for the parameters the initialisation effect set; its
\* recalculation effect runs because the parameters changed
InfoRerender ==
    /\ info.rerender
    /\ info' = [recalcEffect(info, info, solarPanelData) EXCEPT !.rerender = FALSE]
    /\ UNCHANGED <<calc, norm, match, load, sim,
                   address, solarPanelData, coordinates, loading,
                   error, spreadsheetData, loadState, pending, mapView, lastSearch>>

\* the callback of setTimeout(..., 0): isInitialLoadRef.current = false
InitialLoadTimer ==
    /\ info.timer
    /\ info' = [info EXCEPT !.isInitialLoad = FALSE, !.timer = FALSE]
    /\ UNCHANGED <<calc, norm, match, load, sim,
                   address, solarPanelData, coordinates, loading,
                   error, spreadsheetData, loadState, pending, mapView, lastSearch>>

\* the inputs are rendered when a record is shown (not loading, data truthy); a
\* user's keystroke comes after the renders and 0 ms timers of the previous event
CanEdit == Truthy(solarPanelData) /\ ~loading /\ ~info.rerender /\ ~info.timer

KwhEdits == {Text, Zero}
AvailabilityEdits == {Text, Zero, Num(1, 2), Int2Num(150), Int2Num(-5)}
AvgPanelOutputEdits == {Text, Zero}

\* onChange of the yield factor input
EditKwhPerKwp ==
    /\ CanEdit
    /\ \E typed \in KwhEdits :
          info' = afterEdit(info,
                     [info EXCEPT !.kwhPerKwpPerYear = handleKwhPerKwpChange(typed),
                                  !.lastEdit = [field |-> "kwhPerKwpPerYear",
                                                typed |-> typed]],
                     solarPanelData)
    /\ UNCHANGED <<calc, norm, match, load, sim,
                   address, solarPanelData, coordinates, loading,
                   error, spreadsheetData, loadState, pending, mapView, lastSearch>>

\* onChange of the availability input
EditAvailabilityFactor ==
    /\ CanEdit
    /\ \E typed \in AvailabilityEdits :
          info' = afterEdit(info,
                     [info EXCEPT !.availabilityFactor =
                                      handleAvailabilityFactorChange(typed),
                                  !.lastEdit = [field |-> "availabilityFactor",
                                                typed |-> typed]],
                     solarPanelData)
    /\ UNCHANGED <<calc, norm, match, load, sim,
                   address, solarPanelData, coordinates, loading,
                   error, spreadsheetData, loadState, pending, mapView, lastSearch>>

\* onChange of the panel wattage input
EditAvgPanelOutput ==
    /\ CanEdit
    /\ \E typed \in AvgPanelOutputEdits :
          info' = afterEdit(info,
                     [info EXCEPT !.avgPanelOutput = handleAvgPanelOutputChange(typed),
                                  !.lastEdit = [field |-> "avgPanelOutput",
                                                typed |-> typed]],
                     solarPanelData)
    /\ UNCHANGED <<calc, norm, match, load, sim,
                   address, solarPanelData, coordinates, loading,
                   error, spreadsheetData, loadState, pending, mapView, lastSearch>>

Init ==
    /\ calc = CalcIdle
    /\ norm = NormIdle
    /\ match = MatchIdle
    /\ load = LoadIdle
    /\ sim = SimIdle
    /\ AppInit

Next ==
    \/ LoadResolve \/ LoadReject \/ Search \/ GeocodeResolve \/ GeocodeReject
    \/ InfoRerender \/ InitialLoadTimer
    \/ EditKwhPerKwp \/ EditAvailabilityFactor \/ EditAvgPanelOutput

Spec == Init /\ [][Next]_vars

\* the application when every geocode call settles: the promise of a request in
\* flight resolves or rejects, and React runs the render it has scheduled
SpecSettling ==
    /\ Init
    /\ [][Next]_vars
    /\ WF_vars(GeocodeResolve \/ GeocodeReject)
    /\ WF_vars(InfoRerender)

\* C9: whenever a search ends in Found, the matched key is a key of the dataset
\* table and the displayed record is the record the table stores under that key.
C9_FoundRecordIsDatasetRow ==
    lastSearch.outcome = "found" =>
        \E i \in DOMAIN spreadsheetData :
            /\ spreadsheetData[i].key = lastSearch.matchedKey
            /\ spreadsheetData[i].value = solarPanelData

\* C10: when no tier matches, the search ends with the informational message, no
\* record, and the map view (centre and zoom) it started with.
C10_NotFoundKeepsMapView ==
    lastSearch.outcome = "notFound" =>
        /\ error = "The address is not available"
        /\ solarPanelData = NoData
        /\ loading = FALSE
        /\ mapView = lastSearch.viewBefore

C13_FoundShowsRecordValues ==
    (lastSearch.outcome = "found" /\ ~info.edited /\ ~info.rerender) =>
        \A y \in {PresentOr(solarPanelData.kwhPerKwpPerYear,
                            Int2Num(DefaultKwhPerKwpPerYear))},
           a \in {newAvailabilityFactor(solarPanelData)},
           w \in {PresentOr(solarPanelData.avgPanelOutput,
                            Int2Num(DefaultAvgPanelOutput))} :
            /\ Parameters(info) = <<y, a, w>>
            /\ \A kwp \in {seededKwp(solarPanelData, w)} :
                  /\ info.calculatedKwp = kwp
                  /\ info.calculatedAnnualOutput =
                         seededAnnualOutput(solarPanelData, kwp, y, a)

\* C13, the parameters alone: they are seeded from the record on every entry into
\* Found that hands the component another data value than it had.
C13_ParametersSeeded ==
    [][(lastSearch'.outcome = "found" /\ lastSearch' # lastSearch
          /\ solarPanelData' # solarPanelData) =>
          Parameters(info') =
              <<PresentOr(solarPanelData'.kwhPerKwpPerYear,
                          Int2Num(DefaultKwhPerKwpPerYear)),
                newAvailabilityFactor(solarPanelData'),
                PresentOr(solarPanelData'.avgPanelOutput,
                          Int2Num(DefaultAvgPanelOutput))>>]_vars

C13_Witness ==
    /\ lastSearch.outcome = "found"
    /\ solarPanelData.kwp = Int2Num(1)
    /\ info.kwhPerKwpPerYear = Int2Num(900)
    /\ info.availabilityFactor = Int2Num(99)
    /\ ~info.rerender /\ ~info.timer /\ ~info.edited
    /\ info.calculatedKwp # Int2Num(1)

\* C14: after a user edit in Found, the displayed capacity is
\* calculateKwp(record.panels, current wattage) and the displayed annual output is
\* calculateAnnualOutput(that capacity, current yield, current availability).
C14_EditedShowsCalculatorValues ==
    (lastSearch.outcome = "found" /\ info.edited) =>
        \A kwp \in {calculateKwp(solarPanelData.panels, info.avgPanelOutput)} :
            /\ info.calculatedKwp = kwp
            /\ info.calculatedAnnualOutput =
                   calculateAnnualOutput(kwp, info.kwhPerKwpPerYear,
                                         info.availabilityFactor)

\* C14 for an edit that changes a parameter's value: the displayed capacity and
\* annual output are then the calculator's results on the current parameters.
C14_ChangingEditRecalculates ==
    [][(info'.edited /\ Parameters(info') # Parameters(info)) =>
          \A kwp \in {calculateKwp(solarPanelData'.panels, info'.avgPanelOutput)} :
              /\ info'.calculatedKwp = kwp
              /\ info'.calculatedAnnualOutput =
                     calculateAnnualOutput(kwp, info'.kwhPerKwpPerYear,
                                           info'.availabilityFactor)]_vars

C14_Witness ==
    /\ lastSearch.outcome = "found"
    /\ info.edited
    /\ solarPanelData.kwp = Int2Num(1)
    /\ info.availabilityFactor = Int2Num(50)
    /\ info.calculatedKwp = calculateKwp(solarPanelData.panels, info.avgPanelOutput)
    /\ info.calculatedKwp # solarPanelData.kwp
    /\ info.calculatedAnnualOutput # solarPanelData.annualOutput
    /\ info.calculatedAnnualOutput # Zero

\* strictly between 0 and 1
InUnitInterval(v) == v.t = "num" /\ Gt(v, Zero) /\ Gt(One, v)

C16_ParametersAreNumbers ==
    [][/\ \A k \in 1..3 : Parameters(info')[k].t = "num"
       /\ info'.lastEdit # info.lastEdit =>
              \A typed \in {info'.lastEdit.typed} :
                  /\ info'.lastEdit.field = "kwhPerKwpPerYear" =>
                         info'.kwhPerKwpPerYear =
                             IF typed.t = "num" THEN typed
                             ELSE Int2Num(DefaultKwhPerKwpPerYear)
                  /\ info'.lastEdit.field = "avgPanelOutput" =>
                         info'.avgPanelOutput =
                             IF typed.t = "num" THEN typed
                             ELSE Int2Num(DefaultAvgPanelOutput)
                  /\ info'.lastEdit.field = "availabilityFactor" =>
                         /\ typed.t # "num" =>
                                info'.availabilityFactor =
                                    Int2Num(DefaultAvailabilityFactor)
                         /\ typed = Zero => info'.availabilityFactor = Zero
                         /\ ~Gt(Zero, info'.availabilityFactor)
                         /\ ~Gt(info'.availabilityFactor, Int2Num(100))]_vars

C16_Witness ==
    /\ info.lastEdit = [field |-> "kwhPerKwpPerYear", typed |-> Zero]
    /\ info.kwhPerKwpPerYear = Zero
    /\ info.availabilityFactor = Int2Num(100)
    /\ info.avgPanelOutput = Int2Num(DefaultAvgPanelOutput)

\* C17: the zoom handed to the map is 17 for the initial view and after a search
\* that found nothing; it is 19 only for a view that comes from a successful
\* search.  Here: a search that found nothing, started from a view at zoom 17 that
\* no geocoder answer has moved, leaves the zoom at 17.
C17_ZoomSeventeenWhenNothingFound ==
    (/\ lastSearch.outcome \in {"notFound", "rejected"}
     /\ lastSearch.viewBefore.zoom = 17
     /\ coordinates = DefaultCoordinates) => mapView.zoom = 17

\* C17, what the map is handed: zoom 19 from the first search on, whatever its
\* outcome, and zoom 17 only before it.
C17_ZoomNineteenOnceSearched ==
    /\ mapView.zoom \in {17, 19}
    /\ mapView.zoom = 19 <=> address # <<>>

C17_Witness ==
    /\ lastSearch.outcome = "notFound"
    /\ lastSearch.viewBefore.zoom = 17
    /\ coordinates = DefaultCoordinates
    /\ mapView = [center |-> DefaultCoordinates, zoom |-> 19]

\* C18: the dataset table is written at most once, when the load completes, and
\* no later step (search, geocoder answer, parameter edit, timer or render)
\* changes it or a record in it.
C18_TableWrittenOnce ==
    [][/\ spreadsheetData' # spreadsheetData =>
              /\ loadState = "pending"
              /\ loadState' = "loaded"
              /\ spreadsheetData = <<>>
       /\ loadState # "pending" =>
              /\ loadState' = loadState
              /\ spreadsheetData' = spreadsheetData]_vars

C18_Witness ==
    /\ loadState = "loaded"
    /\ Len(spreadsheetData) = 2
    /\ lastSearch.outcome = "found"
    /\ lastSearch.geocode = "resolved"
    /\ info.lastEdit.field = "availabilityFactor"
    /\ \E i \in DOMAIN spreadsheetData :
          /\ spreadsheetData[i].value = solarPanelData
          /\ info.availabilityFactor # newAvailabilityFactor(spreadsheetData[i].value)

\* C19: when the load fails, the error message is set and the table is empty; from
\* then on the load never runs again, the table stays empty, no geocode request is
\* issued and no search ends in Found.
C19_LoadFailureIsFinal ==
    [][/\ (loadState' = "failed" /\ loadState # "failed") =>
              /\ loadState = "pending"
              /\ error' = "Failed to load solar panel data"
              /\ spreadsheetData' = <<>>
       /\ loadState = "failed" =>
              /\ loadState' = "failed"
              /\ spreadsheetData' = <<>>
              /\ pending' = <<>>
              /\ solarPanelData' = NoData
              /\ lastSearch'.outcome \in {"none", "rejected"}]_vars

C19_Witness ==
    /\ loadState = "failed"
    /\ lastSearch.outcome = "rejected"
    /\ lastSearch.query = Constructor
    /\ error = "Solar panel data is still loading"

\* C20: a search that starts leaves the geocode requests of earlier searches in
\* flight, and every request's answer or failure, in whatever order they arrive, is
\* applied: its record is displayed and the loading flag is cleared.
C20_EarlierResponsesAreApplied ==
    [][/\ Len(pending') >= Len(pending) =>
              SubSeq(pending', 1, Len(pending)) = pending
       /\ Len(pending') < Len(pending) =>
              \E i \in DOMAIN pending :
                  /\ pending' = RemoveAt(pending, i)
                  /\ solarPanelData' = pending[i].data
                  /\ lastSearch'.query = pending[i].query
                  /\ lastSearch'.outcome = "found"
                  /\ loading' = FALSE
                  /\ error' = "null"
                  /\ \/ lastSearch'.geocode = "resolved" /\ coordinates' \in GeoCoords
                     \/ lastSearch'.geocode = "failed" /\ coordinates' = coordinates]_vars

\* the stale state: the newer search (for an address no tier matches) has ended, and
\* the record and coordinates of the earlier search are displayed under its query
C20_Witness ==
    /\ address = Zzz
    /\ lastSearch.outcome = "found"
    /\ lastSearch.geocode = "resolved"
    /\ lastSearch.query = MainSt12
    /\ solarPanelData = lastSearch.data
    /\ coordinates \in GeoCoords
    /\ error = "null"
    /\ pending = <<>>

(***************************************************************************)
(* SpecLoad: loadSpreadsheetFromUrl applied to one-row sheets whose cells  *)
(* are missing, non-numeric text, zero, negative, fractional or above 100. *)
(***************************************************************************)
PanelCells == {Undefined, Text, Zero, Int2Num(-3), Int2Num(10), Num(5, 2)}
AvailabilityCells ==
    {Undefined, Text, Zero, Num(99, 100), Int2Num(99), Int2Num(150), Int2Num(-5)}
YieldCells == {Undefined, Text, Zero, Int2Num(900)}
WattCells == {Undefined, Text, Zero, Int2Num(400)}
OutputCells == {Undefined, Int2Num(800)}

LoadRows ==
    {<<[Row(MainSt12) EXCEPT !.panels = p, !.availabilityFactor = a,
                             !.kwhPerKwpPerYear = y, !.avgPanelOutput = w,
                             !.annualOutput = o, !.kwp = o]>> :
        p \in PanelCells, a \in AvailabilityCells, y \in YieldCells, w \in WattCells,
        o \in OutputCells}

InitLoad ==
    /\ \E rows \in LoadRows : load = [LoadIdle EXCEPT !.pc = "input", !.rows = rows]
    /\ calc = CalcIdle
    /\ norm = NormIdle
    /\ match = MatchIdle
    /\ sim = SimIdle
    /\ AppInit

\* loadSpreadsheetFromUrl on the sheet's rows
RunLoad ==
    /\ load.pc = "input"
    /\ load' = [load EXCEPT !.pc = "done", !.table = loadSpreadsheetFromUrl(load.rows)]
    /\ UNCHANGED <<calc, norm, match, sim, appVars>>

NextLoad == RunLoad

SpecLoad == InitLoad /\ [][NextLoad]_vars

\* C21: every record of the loaded table has a panel count that is a number >= 0
\* and an availability factor that is a number within 0..100.
C21_LoadedRecordsInRange ==
    load.pc = "done" =>
        \A i \in DOMAIN load.table :
            \A r \in {load.table[i].value} :
                /\ r.panels.t = "num" /\ r.panels.n >= 0
                /\ r.availabilityFactor.t = "num"
                /\ r.availabilityFactor.n >= 0
                /\ r.availabilityFactor.n <= 100 * r.availabilityFactor.d

\* the availability a cell value v is stored as: a fraction is rescaled (C15)
StoredAvailability(v) == IF InUnitInterval(v) THEN Mul(v, Int2Num(100)) ELSE v

\* C22: each numeric field of a loaded record is the source cell's number whenever
\* the cell is a number, 0 included, and the field's default (0, 0, 875, 99, 435)
\* only when the cell is missing or no number.
C22_ParsedValuesStored ==
    load.pc = "done" =>
        \A i \in DOMAIN load.table :
            \A r \in {load.table[i].value}, row \in {load.rows[1]} :
                /\ r.panels = IF row.panels.t = "num" THEN row.panels ELSE Zero
                /\ r.annualOutput =
                       IF row.annualOutput.t = "num" THEN row.annualOutput ELSE Zero
                /\ r.kwp = IF row.kwp.t = "num" THEN row.kwp ELSE Zero
                /\ r.kwhPerKwpPerYear =
                       IF row.kwhPerKwpPerYear.t = "num" THEN row.kwhPerKwpPerYear
                       ELSE Int2Num(DefaultKwhPerKwpPerYear)
                /\ r.availabilityFactor =
                       StoredAvailability(
                           IF row.availabilityFactor.t = "num" THEN row.availabilityFactor
                           ELSE Int2Num(DefaultAvailabilityFactor))
                /\ r.avgPanelOutput =
                       IF row.avgPanelOutput.t = "num" THEN row.avgPanelOutput
                       ELSE Int2Num(DefaultAvgPanelOutput)

\* a cell that is a number other than 0
NonZeroNumber(v) == v.t = "num" /\ v.n # 0

\* C22 with a cell of 0 counted as missing: every stored field is a number, the
\* cell's own when the cell is a number other than 0 and the default otherwise.
C22_NonZeroValuesStored ==
    load.pc = "done" =>
        \A i \in DOMAIN load.table :
            \A r \in {load.table[i].value}, row \in {load.rows[1]} :
                /\ \A v \in {r.panels, r.confidence, r.annualOutput, r.kwp,
                              r.kwhPerKwpPerYear, r.availabilityFactor,
                              r.avgPanelOutput} : v.t = "num"
                /\ r.panels = IF NonZeroNumber(row.panels) THEN row.panels ELSE Zero
                /\ r.annualOutput =
                       IF NonZeroNumber(row.annualOutput) THEN row.annualOutput ELSE Zero
                /\ r.kwp = IF NonZeroNumber(row.kwp) THEN row.kwp ELSE Zero
                /\ r.kwhPerKwpPerYear =
                       IF NonZeroNumber(row.kwhPerKwpPerYear) THEN row.kwhPerKwpPerYear
                       ELSE Int2Num(DefaultKwhPerKwpPerYear)
                /\ r.availabilityFactor =
                       StoredAvailability(
                           IF NonZeroNumber(row.availabilityFactor)
                           THEN row.availabilityFactor
                           ELSE Int2Num(DefaultAvailabilityFactor))
                /\ r.avgPanelOutput =
                       IF NonZeroNumber(row.avgPanelOutput) THEN row.avgPanelOutput
                       ELSE Int2Num(DefaultAvgPanelOutput)

C22_Witness ==
    /\ load.pc = "done"
    /\ load.rows[1].kwhPerKwpPerYear = Zero
    /\ load.rows[1].availabilityFactor = Zero
    /\ load.rows[1].avgPanelOutput = Zero
    /\ Len(load.table) = 1
    /\ load.table[1].value.kwhPerKwpPerYear = Int2Num(DefaultKwhPerKwpPerYear)
    /\ load.table[1].value.availabilityFactor = Int2Num(DefaultAvailabilityFactor)
    /\ load.table[1].value.avgPanelOutput = Int2Num(DefaultAvgPanelOutput)

(***************************************************************************)
(* SpecSim: calculateSimilarity applied to every pair of strings of up to  *)
(* MaxSimLen characters over two letters.                                  *)
(***************************************************************************)
MaxSimLen == 5

SimAlphabet == {"a", "b"}

SimInputs == StringsUpTo(SimAlphabet, MaxSimLen)

InitSim ==
    /\ \E a \in SimInputs, b \in SimInputs :
          sim = [SimIdle EXCEPT !.pc = "input", !.str1 = a, !.str2 = b]
    /\ calc = CalcIdle
    /\ norm = NormIdle
    /\ match = MatchIdle
    /\ load = LoadIdle
    /\ AppInit

\* calculateSimilarity(str1, str2)
RunSim ==
    /\ sim.pc = "input"
    /\ sim' = [sim EXCEPT !.pc = "done",
                          !.similarity = calculateSimilarity(sim.str1, sim.str2)]
    /\ UNCHANGED <<calc, norm, match, load, appVars>>

NextSim == RunSim

SpecSim == InitSim /\ [][NextSim]_vars

\* the number of characters of the shorter string that equal the character of the
\* longer at the same position or occur anywhere in it
ClaimedCharacterMatches(longer, shorter) ==
    Cardinality({i \in 1..Len(shorter) :
                    \/ shorter[i] = longer[i]
                    \/ \E j \in 1..Len(longer) : longer[j] = shorter[i]})

\* the number of 3-character substrings of the shorter that occur in the longer
ClaimedCommonSubstrings(longer, shorter) ==
    Cardinality({i \in 1..(Len(shorter) - 2) :
                    \E j \in 1..(Len(longer) - 2) :
                        SubSeq(longer, j, j + 2) = SubSeq(shorter, i, i + 2)})

ClaimedBlend(longer, shorter) ==
    Add(Mul(Num(7, 10), Num(ClaimedCharacterMatches(longer, shorter), Len(longer))),
        Mul(Num(3, 10),
            Num(ClaimedCommonSubstrings(longer, shorter),
                IF Len(shorter) - 2 >= 1 THEN Len(shorter) - 2 ELSE 1)))

\* C25: calculateSimilarity is 1 for equal strings, 0 when a string is empty,
\* min(len)/max(len) when one string contains the other, otherwise the blend
\* 0.7 * character matches / len(longer) + 0.3 * common 3-character substrings /
\* max(len(shorter) - 2, 1); it always lies in [0, 1].  With equal lengths either
\* string may be the one called the shorter.
C25_SimilarityContract ==
    sim.pc = "done" =>
        \A a \in {sim.str1}, b \in {sim.str2} :
            /\ ~Gt(Zero, sim.similarity)
            /\ ~Gt(sim.similarity, One)
            /\ IF a = b THEN sim.similarity = One
               ELSE IF a = <<>> \/ b = <<>> THEN sim.similarity = Zero
               ELSE IF Includes(a, b) \/ Includes(b, a)
               THEN sim.similarity = Num(Min({Len(a), Len(b)}), Max({Len(a), Len(b)}))
               ELSE \/ Len(a) >= Len(b) /\ sim.similarity = ClaimedBlend(a, b)
                    \/ Len(b) >= Len(a) /\ sim.similarity = ClaimedBlend(b, a)

C25_Witness ==
    /\ sim.pc = "done"
    /\ sim.str1 = <<"a", "a", "b", "a", "b">>
    /\ sim.str2 = <<"b", "b", "a">>
    /\ sim.similarity = Add(Mul(Num(7, 10), Num(3, 5)), Mul(Num(3, 10), Zero))

\* the positions of the digits of s
DigitPositions(s) == {x \in 1..Len(s) : IsDigit(s[x])}

\* s begins with a run of letters and spaces that whitespace separates from the
\* numeric token starting at k
BeginsWithStreetThenNumber(s, k) ==
    /\ k >= 3
    /\ IsWhitespace(s[k - 1])
    /\ \A j \in 1..(k - 1) : IsStreetChar(s[j])

\* the street and number the contract names for the normalized string s
ClaimedStreetAndNumber(s) ==
    IF DigitPositions(s) = {} THEN [street |-> s, number |-> <<>>]
    ELSE Value({IF BeginsWithStreetThenNumber(s, k)
                THEN [street |-> Trim(SubSeq(s, 1, k - 1)), number |-> token]
                ELSE [street |-> Trim(RemoveFirst(s, token)), number |-> token] :
                k \in {Min(DigitPositions(s))},
                token \in {SubSeq(s, Min(DigitPositions(s)),
                                  RunEnd(s, Min(DigitPositions(s)), TRUE))}})

\* C24: extractStreetAndNumber(addr) returns, for the normalized string: the leading
\* run of letters and the numeric token after it when the string begins with them;
\* otherwise the first numeric token anywhere and the remainder as the street;
\* otherwise the whole string as the street and an empty number.
C24_ExtractContract ==
    norm.op = "extract" => norm.parts = ClaimedStreetAndNumber(norm.out)

\* C24, on the strings whose first street-and-number match starts at the first
\* character and ends in the first numeric token, and on those without such a
\* match: the contract holds.
C24_ContractWhenMatchIsLeading ==
    (/\ norm.op = "extract"
     /\ \/ NumberStarts(norm.out) = {}
        \/ /\ Min(NumberStarts(norm.out)) = Min(DigitPositions(norm.out))
           /\ BeginsWithStreetThenNumber(norm.out, Min(NumberStarts(norm.out))))
        => norm.parts = ClaimedStreetAndNumber(norm.out)

C24_Witness ==
    /\ norm.op = "extract"
    /\ norm.input = MainSt23a
    /\ norm.parts = [street |-> MainSt, number |-> <<"2", "3", "a">>]

\* C27: normalizeAddress is idempotent: normalizing a normalized string returns it
\* unchanged.
C27_NormalizeIdempotent ==
    norm.op = "renormalize" => norm.out = norm.input

\* C27, on strings that carry no quote: normalizing a normalized string returns it
\* unchanged.
C27_IdempotentWithoutQuotes ==
    (norm.op = "renormalize" /\ \A i \in DOMAIN norm.input : ~IsQuote(norm.input[i]))
        => norm.out = norm.input

C27_Witness ==
    /\ norm.op = "renormalize"
    /\ norm.input = MainSt12Key
    /\ norm.out = MainSt12Key

\* C23: a search that goes in flight sets loading and clears the record and the
\* error; a search that ends at once shows its message without a record; a geocode
\* call that settles clears loading and displays the record without a message;
\* loading is set only while a request is in flight, and every Loading state is
\* eventually left.
C23_SearchLifecycle ==
    /\ [][/\ Len(pending') > Len(pending) =>
                 /\ loading'
                 /\ solarPanelData' = NoData
                 /\ error' = "null"
          /\ (lastSearch' # lastSearch /\ lastSearch'.outcome \in {"notFound", "rejected"}) =>
                 /\ ~loading'
                 /\ solarPanelData' = NoData
                 /\ error' # "null"
          /\ Len(pending') < Len(pending) =>
                 /\ ~loading'
                 /\ Truthy(solarPanelData')
                 /\ error' = "null"
          /\ (loading' /\ ~loading) => Len(pending') > Len(pending)]_vars
    /\ [](loading => pending # <<>>)
    /\ (loading ~> ~loading)

\* two searches were in flight; the first settled into Found, the second is still
\* in flight and will settle
C23_Witness ==
    /\ ~loading
    /\ Len(pending) = 1
    /\ lastSearch.outcome = "found"
    /\ Truthy(solarPanelData)
    /\ error = "null"
    /\ address = pending[1].query

\* C29: a search issued while the table is empty ends at once with the message that
\* the data is still loading: no record, no tier, no geocode request, coordinates
\* unchanged, loading false.  A search issued once the table is populated carries
\* what the matcher returns for the whole loaded table.
C29_EmptyTableSearchRejected ==
    [][/\ (lastSearch' # lastSearch /\ Len(spreadsheetData) = 0) =>
              /\ lastSearch'.outcome = "rejected"
              /\ lastSearch'.tier = "none"
              /\ lastSearch'.geocode = "none"
              /\ error' = "Solar panel data is still loading"
              /\ solarPanelData' = NoData
              /\ pending' = pending
              /\ pending = <<>>
              /\ coordinates' = coordinates
              /\ ~loading'
       /\ (lastSearch' # lastSearch /\ Len(spreadsheetData) > 0
             /\ lastSearch'.outcome # "found") =>
              \E m \in {matchAddress(spreadsheetData, lastSearch'.query)} :
                  /\ lastSearch'.data = m.data
                  /\ lastSearch'.tier = m.tier
                  /\ lastSearch'.matchedKey = m.matchedKey
                  /\ lastSearch'.outcome =
                         (IF Truthy(m.data) THEN "geocoding" ELSE "notFound")
                  /\ \E rows \in AppDatasets :
                         spreadsheetData = loadSpreadsheetFromUrl(rows)]_vars

\* a search for an address of the dataset was rejected while the load was pending
C29_Witness ==
    /\ loadState = "pending"
    /\ spreadsheetData = <<>>
    /\ lastSearch.outcome = "rejected"
    /\ lastSearch.query = MainSt12
    /\ error = "Solar panel data is still loading"
    /\ solarPanelData = NoData
    /\ pending = <<>>
    /\ coordinates = DefaultCoordinates
    /\ ~loading

\* C30: an error message and a displayed record are never present together: the
\* error is non-null only if solarPanelData is null.
C30_ErrorOnlyWithoutRecord ==
    error # "null" => solarPanelData = NoData

\* an earlier search's record is displayed after a later search had ended with a
\* message: the message is gone
C30_Witness ==
    /\ Truthy(solarPanelData)
    /\ error = "null"
    /\ address = Zzz
    /\ lastSearch.query = MainSt12
    /\ lastSearch.outcome = "found"
    /\ lastSearch.geocode = "failed"

\* the query and the key are substrings of one another, in either direction
MutualSubstrings(searchAddress, key) ==
    \E n \in {normalizeAddress(searchAddress)} : Includes(key, n) \/ Includes(n, key)

\* both carry a number, the numbers are equal
SameNumbers(searchAddress, key) ==
    \E s \in {extractStreetAndNumber(searchAddress)}, k \in {extractStreetAndNumber(key)} :
        s.number # <<>> /\ k.number # <<>> /\ s.number = k.number

SimilarStreets(searchAddress, key) ==
    \E s \in {extractStreetAndNumber(searchAddress)}, k \in {extractStreetAndNumber(key)} :
        Gt(calculateSimilarity(s.street, k.street), Num(5, 10))

\* the keys the contract lets the fallback tier return
ClaimedFallbackHits(table, searchAddress) ==
    {i \in DOMAIN table :
        \/ MutualSubstrings(searchAddress, table[i].key)
        \/ SameNumbers(searchAddress, table[i].key)
              /\ SimilarStreets(searchAddress, table[i].key)}

\* the search's result is the first of the keys the contract names, or None
ClaimedFallbackResult(result, table, hits) ==
    IF hits = {}
    THEN result.tier = "none" /\ result.data = NoData
    ELSE /\ result.tier = "fallback"
         /\ result.matchedKey = table[Min(hits)].key
         /\ result.data = table[Min(hits)].value

\* neither the exact nor the structural tier produced a record
NoEarlierTier(table, searchAddress) ==
    /\ ~Truthy(Lookup(table, normalizeAddress(searchAddress)))
    /\ ~Truthy(structuralTier(table, searchAddress).data)

\* C26: the fallback tier runs only when neither the exact nor the structural tier
\* produced a record; it returns the first key in table order for which query and
\* key are substrings of one another or, with equal numbers on both sides, the street
\* similarity exceeds 0.5; if no key qualifies the result is None.
C26_FallbackContract ==
    match.pc = "done" =>
        /\ match.result.tier = "fallback" => NoEarlierTier(match.table, match.query)
        /\ NoEarlierTier(match.table, match.query) =>
               ClaimedFallbackResult(match.result, match.table,
                                     ClaimedFallbackHits(match.table, match.query))

\* C26, when no key that shares the query's number is related to the query by
\* containment alone, and the first qualifying key is not the empty string: the
\* contract holds.
C26_ContractWhenNumberRuleDecides ==
    (/\ match.pc = "done"
     /\ \A i \in DOMAIN match.table :
           (SameNumbers(match.query, match.table[i].key)
              /\ MutualSubstrings(match.query, match.table[i].key))
               => SimilarStreets(match.query, match.table[i].key)
     /\ \A i \in DOMAIN match.table :
           match.table[i].key = <<>> => Min(ClaimedFallbackHits(match.table, match.query)) < i)
        =>
        /\ match.result.tier = "fallback" => NoEarlierTier(match.table, match.query)
        /\ NoEarlierTier(match.table, match.query) =>
               ClaimedFallbackResult(match.result, match.table,
                                     ClaimedFallbackHits(match.table, match.query))

\* 'abcde 1' against the key 'abc 1': no exact key, structural score 0.6, and the
\* fallback tier returns the key for its equal number and street similarity 0.6
C26_Witness ==
    /\ match.pc = "done"
    /\ match.query = Abcde1
    /\ Len(match.table) = 2
    /\ match.table[1].key = MainSt
    /\ match.table[2].key = Abc1
    /\ match.result.tier = "fallback"
    /\ match.result.matchedKey = Abc1

\* C28: a query whose normalized form is the empty string never ends in Found: no
\* tier returns a record for it against a non-empty table.
C28_EmptyQueryNeverFound ==
    (match.pc = "done" /\ normalizeAddress(match.query) = <<>> /\ Len(match.table) > 0) =>
        /\ ~Truthy(match.result.data)
        /\ match.result.tier = "none"

\* C28, what the tiers do with such a query: the record stored under the empty key
\* if there is one, otherwise the first entry of the table, which the structural
\* tier scores 0.9 because every key contains the empty street.
C28_EmptyQueryReturnsFirstEntry ==
    (match.pc = "done" /\ normalizeAddress(match.query) = <<>> /\ Len(match.table) > 0) =>
        IF <<>> \in Keys(match.table)
        THEN /\ match.result.tier = "exact"
             /\ match.result.data.originalAddress = Dot
        ELSE /\ match.result.tier = "structural"
             /\ match.result.matchedKey = match.table[1].key
             /\ match.result.data = match.table[1].value
             /\ match.result.best.bestScore = Num(9, 10)

\* the query '.' against a table of two addresses returns the first of them
C28_Witness ==
    /\ match.pc = "done"
    /\ match.query = Dot
    /\ Len(match.table) = 2
    /\ match.table[1].key = MainSt12Key
    /\ match.table[2].key = Abc1
    /\ match.result.tier = "structural"
    /\ match.result.data.originalAddress = MainSt12
====
